---------------------------- MODULE Spec2Model ----------------------------
(***************************************************************************)
(* Model of bluffy's concurrent chunk-processing pipeline.                 *)
(*                                                                         *)
(* Spec     : one call of OllamaClient.GetEmbeddingsConcurrent or          *)
(*            OllamaClient.GetSummariesConcurrent (pkg/embedding/ollama.go)*)
(*            as the goroutines it is made of: the calling goroutine       *)
(*            (spawn loop, send loop, close(jobs), collect loop, return),  *)
(*            the workers, the goroutine that closes the results channel,  *)
(*            and the model service answering each request.                *)
(* LiveSpec : Spec with the fairness of the Go scheduler and of a service  *)
(*            that answers every request.                                  *)
(* SimSpec  : similarity.CalculateAllSimilarities as its nested loop.      *)
(* CleanSpec: cleanSummaryResponse and the lines of GetSummary after it,   *)
(*            applied to a response and then to their own result.          *)
(* TxSpec   : one call of DB.BatchInsertSimilarities on a store.           *)
(* RunSpec  : a processing run, processFile (CLI) or App.ProcessFile       *)
(*            (desktop): the availability checks, the two batch calls at   *)
(*            the granularity of their requests, InsertChunk per chunk,    *)
(*            the similarity stage (the steps of SimSpec, or               *)
(*            DB.CalculateSimilarities), the steps of TxSpec, and a        *)
(*            request to the graph endpoint, or a call of the desktop      *)
(*            app's GetGraphData, on the store the run left.               *)
(* PoolSpec : Spec started with more jobs than workers and two or more     *)
(*            workers.                                                     *)
(* ChunkSpec: ChunkTextByParagraphs, the line scanner and the one built on *)
(*            a text splitter, applied to a file.                          *)
(*                                                                         *)
(* Go slices are functions on 0..n-1, so that an index of the model is the *)
(* index of the code.  Channels are sequences plus a closed flag.          *)
(* A text is a natural number (0 is the empty string); an embedding is a   *)
(* sequence of integers (<<>> is the nil slice); a summary is a sequence   *)
(* of words (<<>> is the empty string).                                    *)
(***************************************************************************)
EXTENDS Integers, Sequences, FiniteSets, TLC

\* ------------------------------------------------------------------ bounds
\* largest batch length len(chunks)
MaxChunks == 2
\* largest value of the maxWorkers argument
MaxWorkers == 2
\* number of chunks of the batch call in which the pool has fewer workers
\* than jobs
MaxPoolChunks == 3

VARIABLES
    \* --- inputs of the batch call
    loopvar,         \* "shared" | "periter": what `for i, chunk := range` declares
    kind,            \* "embedding" | "summary": which of the two batch calls
    chunks,          \* the caller's slice
    maxWorkers,      \* the maxWorkers parameter (reassigned when <= 0)
    hasCallback,     \* progressCallback != nil
    \* --- the calling goroutine
    pc, spawned, sendIdx,
    cell,            \* the loop variable(s) `chunk` that job.Chunk points to
    processedChunks, errors, completed, ret,
    \* --- channels and wait group
    jobs, jobsClosed, results, resultsClosed, wg,
    \* --- workers
    wpc, wjob, wtext, wresp,
    \* --- the goroutine of lines 281-284
    cpc,
    \* --- observations
    progressLog,     \* the calls progressCallback received, in order
    reqCount,        \* service requests issued, per job index
    outcome,         \* how the service answered the request of each job index
    panicked,        \* a send on a closed channel happened
    \* --- CalculateAllSimilarities
    simChunks, simI, simJ, similarities, simPc, simRet,
    \* --- cleanSummaryResponse and the lines of GetSummary after it
    response,        \* the raw response of the model
    cleanedOnce,     \* cleanSummaryResponse(response)
    cleanedTwice,    \* cleanSummaryResponse(cleanedOnce)
    summaryOnce,     \* what GetSummary returns for response
    summaryTwice,    \* what GetSummary returns for a response that is summaryOnce
    cleanPc,
    \* --- the store (the SQLite file) and DB.BatchInsertSimilarities
    dbChunks,        \* the rows of text_chunks, in rowid order
    dbSims,          \* the committed rows of chunk_similarities, in rowid order
    dbBefore,        \* the store as the operation under study found it
    txBatch,         \* the similarities argument
    txI,             \* records of the batch executed so far
    txRows,          \* rows inserted by the open transaction
    txPc, txErr,
    \* --- a processing run: processFile (CLI) or App.ProcessFile (desktop)
    entry,           \* "cli" | "app"
    svc,             \* the condition of the model service
    runArg,          \* the maxWorkers argument and the CPUs of the machine
    runPc,
    runWorkers,      \* the pool size the batch calls run with
    runChunks,       \* chunks, then processedChunks
    embReq, sumReq,  \* per chunk: the request of the embedding / summary batch
    answers,         \* the embeddings the service returned, per job index
    runK,            \* chunks handed to InsertChunk so far
    runErr,
    \* --- the graph endpoint
    graphResp,
    \* --- the chunking step: ChunkTextByParagraphs
    chunkIn,         \* the chunker called, the file's lines, the splitter's segments
    chunkOut         \* what the call returned

batchVars == <<loopvar, kind, chunks, maxWorkers, hasCallback, pc, spawned, sendIdx,
               cell, processedChunks, errors, completed, ret, jobs, jobsClosed,
               results, resultsClosed, wg, wpc, wjob, wtext, wresp, cpc,
               progressLog, reqCount, outcome, panicked>>
simVars == <<simChunks, simI, simJ, similarities, simPc, simRet>>
cleanVars == <<response, cleanedOnce, cleanedTwice, summaryOnce, summaryTwice, cleanPc>>
storeVars == <<dbChunks, dbSims, dbBefore, txBatch, txI, txRows, txPc, txErr>>
runVars == <<entry, svc, runArg, runPc, runWorkers, runChunks, embReq, sumReq, answers, runK,
             runErr, graphResp>>
chunkVars == <<chunkIn, chunkOut>>
vars == <<batchVars, simVars, cleanVars, storeVars, runVars, chunkVars>>
nonBatchVars == <<simVars, cleanVars, storeVars, runVars, chunkVars>>
nonSimVars == <<batchVars, cleanVars, storeVars, runVars, chunkVars>>
nonCleanVars == <<batchVars, simVars, storeVars, runVars, chunkVars>>

\* ------------------------------------------------------------ data model
\* a nil error, a nil *TextChunk, the nil slice and the nil aggregate error
NoError == "nil"
NilPtr == 0 - 1
NilSlice == [isNil |-> TRUE, elems |-> <<>>]
NilAggregate == [isNil |-> TRUE, op |-> "", errors |-> <<>>]
NoJob == [Index |-> NilPtr, Chunk |-> NilPtr]
NoResponse == [value |-> <<>>, err |-> NoError]
NotReturned == [chunks |-> NilSlice, err |-> NilAggregate]

\* database.TextChunk{} : the zero value
ZeroChunk == [ID |-> 0, Text |-> 0, ChunkIndex |-> 0, Embedding |-> <<>>, Summary |-> <<>>]

\* what POST /api/embeddings answers for a prompt: a vector determined by the text
ServiceEmbedding(text) == <<text, text + 1>>

\* what GetSummary returns for a text when the service answers
ServiceSummary(text) == <<text>>

\* errors GetEmbedding / GetSummary return: "failed to call Ollama API" and
\* "Ollama API returned status"; the batch code never inspects an error, so
\* the decode error takes the paths of these two
Causes == {"call", "status"}

\* the chunk the chunker hands to the embedding batch for position i
FreshChunk(i) == [ID |-> 0, Text |-> i + 1, ChunkIndex |-> i, Embedding |-> <<>>, Summary |-> <<>>]

\* the chunk the summary batch receives for position i: already embedded
EmbeddedChunk(i) == [FreshChunk(i) EXCEPT !.Embedding = ServiceEmbedding(i + 1)]

InputChunks(k, n) ==
    [i \in 0..(n - 1) |-> IF k = "embedding" THEN FreshChunk(i) ELSE EmbeddedChunk(i)]

\* goroutine identities available to the spawn loop
Workers == 1..(MaxWorkers + 1)

N == Cardinality(DOMAIN chunks)

\* ------------------------------------------------------- the batch call
\* lines 260-262 / 313-315: if maxWorkers <= 0 { maxWorkers = runtime.NumCPU() }
DefaultWorkers(w, numCPU) == IF w <= 0 THEN numCPU ELSE w

\* &chunk in the send loop: one variable for the whole loop before Go 1.22,
\* one per iteration from Go 1.22 on
Addr(i) == IF loopvar = "shared" THEN 0 ELSE i

BatchInit ==
    /\ loopvar \in {"shared", "periter"}
    /\ kind \in {"embedding", "summary"}
    /\ \E n \in 0..MaxChunks : chunks = InputChunks(kind, n)
    /\ maxWorkers \in (0 - 1)..MaxWorkers
    /\ hasCallback \in BOOLEAN
    /\ pc = "entry" /\ spawned = 0 /\ sendIdx = 0
    /\ cell = [a \in DOMAIN chunks |-> ZeroChunk]
    /\ processedChunks = <<>> /\ errors = <<>> /\ completed = 0 /\ ret = NotReturned
    /\ jobs = <<>> /\ jobsClosed = FALSE /\ results = <<>> /\ resultsClosed = FALSE
    /\ wg = 0
    /\ wpc = [w \in Workers |-> "unstarted"]
    /\ wjob = [w \in Workers |-> NoJob]
    /\ wtext = [w \in Workers |-> 0]
    /\ wresp = [w \in Workers |-> NoResponse]
    /\ cpc = "unstarted"
    /\ progressLog = <<>>
    /\ reqCount = [i \in DOMAIN chunks |-> 0]
    /\ outcome = [i \in DOMAIN chunks |-> "none"]
    /\ panicked = FALSE

\* CalculateAllSimilarities has not been called
SimNoError == [isNil |-> TRUE, op |-> "", id1 |-> 0, id2 |-> 0, cause |-> NoError]
SimNotReturned == [similarities |-> NilSlice, err |-> SimNoError]
SimIdle ==
    /\ simChunks = <<>> /\ simI = 0 /\ simJ = 0 /\ similarities = NilSlice
    /\ simPc = "idle" /\ simRet = SimNotReturned

\* no response is being cleaned
CleanIdle ==
    /\ response = <<>> /\ cleanedOnce = <<>> /\ cleanedTwice = <<>>
    /\ summaryOnce = <<>> /\ summaryTwice = <<>> /\ cleanPc = "idle"

\* no store is open
StoreIdle ==
    /\ dbChunks = <<>> /\ dbSims = <<>> /\ dbBefore = [chunks |-> <<>>, sims |-> <<>>]
    /\ txBatch = <<>> /\ txI = 0 /\ txRows = <<>> /\ txPc = "idle" /\ txErr = NoError

\* a graph request without the min_similarity parameter
NoParam == [given |-> FALSE, valid |-> FALSE, num |-> 0, sqrtDen |-> 1]

\* no graph request was answered
NoGraph == [status |-> 0, param |-> NoParam, nodes |-> <<>>, links |-> <<>>]

\* no run is under way
NoArg == [maxWorkers |-> 0, numCPU |-> 1]
RunIdle ==
    /\ entry = "cli" /\ svc = "ok" /\ runArg = NoArg /\ runPc = "idle" /\ runWorkers = 0
    /\ runChunks = <<>> /\ embReq = <<>> /\ sumReq = <<>> /\ answers = <<>>
    /\ runK = 0 /\ runErr = NoError /\ graphResp = NoGraph

\* no file is being chunked
NotChunked == [returned |-> FALSE, chunks |-> <<>>, err |-> NoError]
ChunkIdle ==
    /\ chunkIn = [chunker |-> "scanner", lines |-> <<>>, docs |-> <<>>]
    /\ chunkOut = NotChunked

Init == BatchInit /\ SimIdle /\ CleanIdle /\ StoreIdle /\ RunIdle /\ ChunkIdle


\* ---------------------------------------------------- calling goroutine
\* lines 260-265: the default of maxWorkers (runtime.NumCPU() answers the
\* number of CPUs of the machine, at least 1) and the two channels
Enter ==
    /\ pc = "entry"
    /\ \E numCPU \in 1..MaxWorkers : maxWorkers' = DefaultWorkers(maxWorkers, numCPU)
    /\ pc' = "spawn"
    /\ UNCHANGED nonBatchVars
    /\ UNCHANGED <<loopvar, kind, chunks, hasCallback, spawned, sendIdx, cell,
                   processedChunks, errors, completed, ret, jobs, jobsClosed, results,
                   resultsClosed, wg, wpc, wjob, wtext, wresp, cpc, progressLog,
                   reqCount, panicked, outcome>>

\* a spawn loop that runs once too often
SpawnMore_OffByOne == spawned <= maxWorkers

\* the condition of the spawn loop, lines 269 / 322: i < maxWorkers
SpawnMore == spawned < maxWorkers

\* lines 269-272: wg.Add(1); go c.worker(jobs, results, &wg)
SpawnWorker ==
    /\ pc = "spawn" /\ SpawnMore
    /\ wg' = wg + 1
    /\ wpc' = [wpc EXCEPT ![spawned + 1] = "recv"]
    /\ spawned' = spawned + 1
    /\ UNCHANGED nonBatchVars
    /\ UNCHANGED <<loopvar, kind, chunks, maxWorkers, hasCallback, pc, sendIdx, cell,
                   processedChunks, errors, completed, ret, jobs, jobsClosed, results,
                   resultsClosed, wjob, wtext, wresp, cpc, progressLog, reqCount, panicked, outcome>>

\* the job of iteration i, lines 276 / 329: EmbeddingJob{Index: i, Chunk: &chunk}
JobOf(i) == [Index |-> i, Chunk |-> Addr(i)]

\* lines 275-277: one iteration of the send loop; the range clause assigns
\* chunks[i] to the loop variable, the body sends the job (the channel has
\* capacity len(chunks), so the send never blocks)
SendJob ==
    /\ pc = "spawn" /\ ~SpawnMore /\ sendIdx < N
    /\ cell' = [cell EXCEPT ![Addr(sendIdx)] = chunks[sendIdx]]
    /\ jobs' = Append(jobs, JobOf(sendIdx))
    /\ sendIdx' = sendIdx + 1
    /\ UNCHANGED nonBatchVars
    /\ UNCHANGED <<loopvar, kind, chunks, maxWorkers, hasCallback, pc, spawned,
                   processedChunks, errors, completed, ret, jobsClosed, results,
                   resultsClosed, wg, wpc, wjob, wtext, wresp, cpc, progressLog,
                   reqCount, panicked, outcome>>

\* a call that forgets close(jobs)
CloseJobs_Forgotten ==
    /\ pc = "spawn" /\ ~(spawned < maxWorkers) /\ sendIdx = N
    /\ pc' = "closed"
    /\ UNCHANGED nonBatchVars
    /\ UNCHANGED <<loopvar, kind, chunks, maxWorkers, hasCallback, spawned, sendIdx, cell,
                   processedChunks, errors, completed, ret, jobs, jobsClosed, results,
                   resultsClosed, wg, wpc, wjob, wtext, wresp, cpc, progressLog,
                   reqCount, panicked, outcome>>

\* line 278: close(jobs)
CloseJobs ==
    /\ pc = "spawn" /\ ~SpawnMore /\ sendIdx = N
    /\ jobsClosed' = TRUE
    /\ pc' = "closed"
    /\ UNCHANGED nonBatchVars
    /\ UNCHANGED <<loopvar, kind, chunks, maxWorkers, hasCallback, spawned, sendIdx, cell,
                   processedChunks, errors, completed, ret, jobs, results,
                   resultsClosed, wg, wpc, wjob, wtext, wresp, cpc, progressLog,
                   reqCount, panicked, outcome>>

\* lines 281-290: go func() { wg.Wait(); close(results) }() and the locals of
\* the collect loop
StartCloser ==
    /\ pc = "closed"
    /\ cpc' = "wait"
    /\ processedChunks' = [i \in DOMAIN chunks |-> ZeroChunk]
    /\ errors' = <<>>
    /\ completed' = 0
    /\ pc' = "collect"
    /\ UNCHANGED nonBatchVars
    /\ UNCHANGED <<loopvar, kind, chunks, maxWorkers, hasCallback, spawned, sendIdx, cell,
                   ret, jobs, jobsClosed, results, resultsClosed, wg, wpc, wjob, wtext,
                   wresp, progressLog, reqCount, panicked, outcome>>

\* results stored in completion order instead of by index
ResultSlot_Arrival(result) == completed

\* line 301: the slot of processedChunks a successful result is stored in
ResultSlot(result) == result.Index

\* a callback invoked with the count before its increment
Progress_Stale(log, done, total) ==
    IF hasCallback THEN Append(log, <<done - 1, total>>) ELSE log

\* lines 294-296: the callback, when there is one, receives (completed, total)
Progress(log, done, total) == IF hasCallback THEN Append(log, <<done, total>>) ELSE log

\* an error labelled with the completion count instead of the job's index
ErrorEntry_ByCount(result) == [Index |-> completed, Cause |-> result.Error]

\* line 299: fmt.Errorf("chunk %d: %w", result.Index, result.Error)
ErrorEntry(result) == [Index |-> result.Index, Cause |-> result.Error]

\* lines 292-303: one iteration of `for result := range results`
Collect ==
    /\ pc = "collect" /\ results # <<>>
    /\ LET result == Head(results) IN
        /\ results' = Tail(results)
        /\ completed' = completed + 1
        /\ progressLog' = Progress(progressLog, completed + 1, N)
        /\ IF result.Error # NoError
             THEN /\ errors' = Append(errors, ErrorEntry(result))
                  /\ UNCHANGED processedChunks
             ELSE /\ processedChunks' =
                        [processedChunks EXCEPT ![ResultSlot(result)] = cell[result.Chunk]]
                  /\ UNCHANGED errors
    /\ UNCHANGED nonBatchVars
    /\ UNCHANGED <<loopvar, kind, chunks, maxWorkers, hasCallback, pc, spawned, sendIdx,
                   cell, ret, jobs, jobsClosed, resultsClosed, wg, wpc, wjob, wtext,
                   wresp, cpc, reqCount, panicked, outcome>>

\* a return that hands out the partial result next to the error
ReturnValue_Partial(errs, processed) ==
    [chunks |-> [isNil |-> FALSE, elems |-> processed],
     err |-> IF Len(errs) > 0 THEN [isNil |-> FALSE, op |-> kind, errors |-> errs]
                              ELSE NilAggregate]

\* lines 305-309: the two return statements
ReturnValue(errs, processed) ==
    IF Len(errs) > 0
      THEN [chunks |-> NilSlice, err |-> [isNil |-> FALSE, op |-> kind, errors |-> errs]]
      ELSE [chunks |-> [isNil |-> FALSE, elems |-> processed], err |-> NilAggregate]

\* a collect loop that gives up waiting for the results still outstanding
Return_TimedOut ==
    /\ pc = "collect" /\ results = <<>>
    /\ ret' = ReturnValue(errors, processedChunks)
    /\ pc' = "done"
    /\ UNCHANGED nonBatchVars
    /\ UNCHANGED <<loopvar, kind, chunks, maxWorkers, hasCallback, spawned, sendIdx, cell,
                   processedChunks, errors, completed, jobs, jobsClosed, results,
                   resultsClosed, wg, wpc, wjob, wtext, wresp, cpc, progressLog,
                   reqCount, panicked, outcome>>

\* the range loop ends when the channel is closed and drained; lines 305-309
Return ==
    /\ pc = "collect" /\ results = <<>> /\ resultsClosed
    /\ ret' = ReturnValue(errors, processedChunks)
    /\ pc' = "done"
    /\ UNCHANGED nonBatchVars
    /\ UNCHANGED <<loopvar, kind, chunks, maxWorkers, hasCallback, spawned, sendIdx, cell,
                   processedChunks, errors, completed, jobs, jobsClosed, results,
                   resultsClosed, wg, wpc, wjob, wtext, wresp, cpc, progressLog,
                   reqCount, panicked, outcome>>

\* a worker that takes only the jobs of its own share, job i going to
\* worker 1 + i mod maxWorkers
WorkerRecv_Partitioned(w) ==
    /\ wpc[w] = "recv" /\ jobs # <<>>
    /\ Head(jobs).Index % maxWorkers = w - 1
    /\ wjob' = [wjob EXCEPT ![w] = Head(jobs)]
    /\ jobs' = Tail(jobs)
    /\ wpc' = [wpc EXCEPT ![w] = "call"]
    /\ UNCHANGED nonBatchVars
    /\ UNCHANGED <<loopvar, kind, chunks, maxWorkers, hasCallback, pc, spawned, sendIdx,
                   cell, processedChunks, errors, completed, ret, jobsClosed, results,
                   resultsClosed, wg, wtext, wresp, cpc, progressLog, reqCount, panicked, outcome>>

\* ---------------------------------------------------------------- workers
\* lines 368 / 383: `for job := range jobs` receives a job
WorkerRecv(w) ==
    /\ wpc[w] = "recv" /\ jobs # <<>>
    /\ wjob' = [wjob EXCEPT ![w] = Head(jobs)]
    /\ jobs' = Tail(jobs)
    /\ wpc' = [wpc EXCEPT ![w] = "call"]
    /\ UNCHANGED nonBatchVars
    /\ UNCHANGED <<loopvar, kind, chunks, maxWorkers, hasCallback, pc, spawned, sendIdx,
                   cell, processedChunks, errors, completed, ret, jobsClosed, results,
                   resultsClosed, wg, wtext, wresp, cpc, progressLog, reqCount, panicked, outcome>>

\* lines 366 / 381: the range loop ends on a closed, drained channel and the
\* deferred wg.Done() runs
WorkerExit(w) ==
    /\ wpc[w] = "recv" /\ jobs = <<>> /\ jobsClosed
    /\ wg' = wg - 1
    /\ wpc' = [wpc EXCEPT ![w] = "done"]
    /\ UNCHANGED nonBatchVars
    /\ UNCHANGED <<loopvar, kind, chunks, maxWorkers, hasCallback, pc, spawned, sendIdx,
                   cell, processedChunks, errors, completed, ret, jobs, jobsClosed,
                   results, resultsClosed, wjob, wtext, wresp, cpc, progressLog,
                   reqCount, panicked, outcome>>

\* lines 369 / 384: job.Chunk.Text is read and the request is issued
WorkerCall(w) ==
    /\ wpc[w] = "call"
    /\ wtext' = [wtext EXCEPT ![w] = cell[wjob[w].Chunk].Text]
    /\ reqCount' = [reqCount EXCEPT ![wjob[w].Index] = @ + 1]
    /\ wpc' = [wpc EXCEPT ![w] = "inflight"]
    /\ UNCHANGED nonBatchVars
    /\ UNCHANGED <<loopvar, kind, chunks, maxWorkers, hasCallback, pc, spawned, sendIdx,
                   cell, processedChunks, errors, completed, ret, jobs, jobsClosed,
                   results, resultsClosed, wg, wjob, wresp, cpc, progressLog, panicked, outcome>>

\* GetEmbedding (lines 152-181) / GetSummary (lines 183-222) returns: a value
\* for the text that was sent, or one of the errors
ServiceReply(w) ==
    /\ wpc[w] = "inflight"
    /\ \E e \in {NoError} \cup Causes :
         /\ wresp' = [wresp EXCEPT ![w] =
                        IF e # NoError THEN [value |-> <<>>, err |-> e]
                        ELSE [value |-> IF kind = "embedding" THEN ServiceEmbedding(wtext[w])
                                                              ELSE ServiceSummary(wtext[w]),
                              err |-> NoError]]
         /\ outcome' = [outcome EXCEPT ![wjob[w].Index] = e]
    /\ wpc' = [wpc EXCEPT ![w] = "returned"]
    /\ UNCHANGED nonBatchVars
    /\ UNCHANGED <<loopvar, kind, chunks, maxWorkers, hasCallback, pc, spawned, sendIdx,
                   cell, processedChunks, errors, completed, ret, jobs, jobsClosed,
                   results, resultsClosed, wg, wjob, wtext, cpc, progressLog, reqCount,
                   panicked>>

\* a send on the results channel: it blocks while the buffer (capacity
\* len(chunks)) is full and panics when the channel is closed
CanSend == resultsClosed \/ Len(results) < N
SendResult(r) ==
    /\ CanSend
    /\ IF resultsClosed
         THEN panicked' = TRUE /\ UNCHANGED results
         ELSE results' = Append(results, r) /\ UNCHANGED panicked

\* a worker that gives up at its first error (`return` for `continue`)
WorkerSendError_Return(w) ==
    /\ wpc[w] = "returned" /\ wresp[w].err # NoError
    /\ SendResult([Index |-> wjob[w].Index, Chunk |-> NilPtr, Error |-> wresp[w].err])
    /\ wpc' = [wpc EXCEPT ![w] = "done"]
    /\ wg' = wg - 1
    /\ wjob' = [wjob EXCEPT ![w] = NoJob]
    /\ wtext' = [wtext EXCEPT ![w] = 0]
    /\ wresp' = [wresp EXCEPT ![w] = NoResponse]
    /\ UNCHANGED nonBatchVars
    /\ UNCHANGED <<loopvar, kind, chunks, maxWorkers, hasCallback, pc, spawned, sendIdx,
                   cell, processedChunks, errors, completed, ret, jobs, jobsClosed,
                   resultsClosed, cpc, progressLog, reqCount, outcome>>

\* lines 370-373 / 385-388: the error result carries the job's index, no chunk;
\* `continue` ends the iteration and its variables (job, embedding, err)
WorkerSendError(w) ==
    /\ wpc[w] = "returned" /\ wresp[w].err # NoError
    /\ SendResult([Index |-> wjob[w].Index, Chunk |-> NilPtr, Error |-> wresp[w].err])
    /\ wpc' = [wpc EXCEPT ![w] = "recv"]
    /\ wjob' = [wjob EXCEPT ![w] = NoJob]
    /\ wtext' = [wtext EXCEPT ![w] = 0]
    /\ wresp' = [wresp EXCEPT ![w] = NoResponse]
    /\ UNCHANGED nonBatchVars
    /\ UNCHANGED <<loopvar, kind, chunks, maxWorkers, hasCallback, pc, spawned, sendIdx,
                   cell, processedChunks, errors, completed, ret, jobs, jobsClosed,
                   resultsClosed, wg, cpc, progressLog, reqCount, outcome>>

\* lines 375 / 390: job.Chunk.Embedding = embedding, job.Chunk.Summary = summary
StoreValue(c, v) ==
    IF kind = "embedding" THEN [c EXCEPT !.Embedding = v] ELSE [c EXCEPT !.Summary = v]

\* a worker whose job points into the caller's slice (&chunks[i])
WorkerStore_InPlace(w) ==
    /\ wpc[w] = "returned" /\ wresp[w].err = NoError
    /\ cell' = [cell EXCEPT ![wjob[w].Chunk] = StoreValue(@, wresp[w].value)]
    /\ chunks' = [chunks EXCEPT ![wjob[w].Index] = StoreValue(@, wresp[w].value)]
    /\ wpc' = [wpc EXCEPT ![w] = "send"]
    /\ UNCHANGED nonBatchVars
    /\ UNCHANGED <<loopvar, kind, maxWorkers, hasCallback, pc, spawned, sendIdx,
                   processedChunks, errors, completed, ret, jobs, jobsClosed, results,
                   resultsClosed, wg, wjob, wtext, wresp, cpc, progressLog, reqCount,
                   panicked, outcome>>

WorkerStore(w) ==
    /\ wpc[w] = "returned" /\ wresp[w].err = NoError
    /\ cell' = [cell EXCEPT ![wjob[w].Chunk] = StoreValue(@, wresp[w].value)]
    /\ wpc' = [wpc EXCEPT ![w] = "send"]
    /\ UNCHANGED nonBatchVars
    /\ UNCHANGED <<loopvar, kind, chunks, maxWorkers, hasCallback, pc, spawned, sendIdx,
                   processedChunks, errors, completed, ret, jobs, jobsClosed, results,
                   resultsClosed, wg, wjob, wtext, wresp, cpc, progressLog, reqCount,
                   panicked, outcome>>

\* lines 376 / 391: results <- EmbeddingResult{Index: job.Index, Chunk: job.Chunk}
WorkerSend(w) ==
    /\ wpc[w] = "send"
    /\ SendResult([Index |-> wjob[w].Index, Chunk |-> wjob[w].Chunk, Error |-> NoError])
    /\ wpc' = [wpc EXCEPT ![w] = "recv"]
    /\ wjob' = [wjob EXCEPT ![w] = NoJob]
    /\ wtext' = [wtext EXCEPT ![w] = 0]
    /\ wresp' = [wresp EXCEPT ![w] = NoResponse]
    /\ UNCHANGED nonBatchVars
    /\ UNCHANGED <<loopvar, kind, chunks, maxWorkers, hasCallback, pc, spawned, sendIdx,
                   cell, processedChunks, errors, completed, ret, jobs, jobsClosed,
                   resultsClosed, wg, cpc, progressLog, reqCount, outcome>>

\* ------------------------------------------------- the closing goroutine
\* a closing goroutine that does not wait for the workers
WaitDone_NoWait == TRUE

\* line 282 / 335: wg.Wait() returns when the counter is zero
WaitDone == wg = 0

CloserWait ==
    /\ cpc = "wait" /\ WaitDone
    /\ cpc' = "close"
    /\ UNCHANGED nonBatchVars
    /\ UNCHANGED <<loopvar, kind, chunks, maxWorkers, hasCallback, pc, spawned, sendIdx,
                   cell, processedChunks, errors, completed, ret, jobs, jobsClosed,
                   results, resultsClosed, wg, wpc, wjob, wtext, wresp, progressLog,
                   reqCount, panicked, outcome>>

\* line 283 / 336: close(results)
CloserClose ==
    /\ cpc = "close"
    /\ resultsClosed' = TRUE
    /\ cpc' = "done"
    /\ UNCHANGED nonBatchVars
    /\ UNCHANGED <<loopvar, kind, chunks, maxWorkers, hasCallback, pc, spawned, sendIdx,
                   cell, processedChunks, errors, completed, ret, jobs, jobsClosed,
                   results, wg, wpc, wjob, wtext, wresp, progressLog, reqCount, panicked, outcome>>

WorkerStep(w) ==
    \/ WorkerRecv(w)
    \/ WorkerExit(w)
    \/ WorkerCall(w)
    \/ WorkerSendError(w)
    \/ WorkerStore(w)
    \/ WorkerSend(w)

MainStep == Enter \/ SpawnWorker \/ SendJob \/ CloseJobs \/ StartCloser \/ Collect \/ Return

CloserStep == CloserWait \/ CloserClose

Next ==
    \/ Enter
    \/ SpawnWorker
    \/ SendJob
    \/ CloseJobs
    \/ StartCloser
    \/ Collect
    \/ Return
    \/ CloserWait
    \/ CloserClose
    \/ \E w \in Workers : WorkerRecv(w)
    \/ \E w \in Workers : WorkerExit(w)
    \/ \E w \in Workers : WorkerCall(w)
    \/ \E w \in Workers : ServiceReply(w)
    \/ \E w \in Workers : WorkerSendError(w)
    \/ \E w \in Workers : WorkerStore(w)
    \/ \E w \in Workers : WorkerSend(w)

Spec == Init /\ [][Next]_vars

\* a batch call with more jobs than workers and at least two workers
PoolInit ==
    /\ loopvar = "periter"
    /\ kind = "embedding"
    /\ chunks = InputChunks(kind, MaxPoolChunks)
    /\ maxWorkers \in 2..MaxWorkers
    /\ hasCallback = FALSE
    /\ pc = "entry" /\ spawned = 0 /\ sendIdx = 0
    /\ cell = [a \in DOMAIN chunks |-> ZeroChunk]
    /\ processedChunks = <<>> /\ errors = <<>> /\ completed = 0 /\ ret = NotReturned
    /\ jobs = <<>> /\ jobsClosed = FALSE /\ results = <<>> /\ resultsClosed = FALSE
    /\ wg = 0
    /\ wpc = [w \in Workers |-> "unstarted"]
    /\ wjob = [w \in Workers |-> NoJob]
    /\ wtext = [w \in Workers |-> 0]
    /\ wresp = [w \in Workers |-> NoResponse]
    /\ cpc = "unstarted"
    /\ progressLog = <<>>
    /\ reqCount = [i \in DOMAIN chunks |-> 0]
    /\ outcome = [i \in DOMAIN chunks |-> "none"]
    /\ panicked = FALSE
    /\ SimIdle /\ CleanIdle /\ StoreIdle /\ RunIdle /\ ChunkIdle

PoolSpec == PoolInit /\ [][Next]_vars


\* ------------------------------------------------ CalculateAllSimilarities
\* largest number of chunks handed to CalculateAllSimilarities
MaxSimChunks == 3

\* embeddings the chunks may carry: two dimensions, a zero vector, a negative
\* coordinate, and one vector of another length
EmbeddingPool == {<<0, 0>>, <<1, 0>>, <<0 - 1, 2>>, <<1>>}

\* ids the chunks may carry (0: not persisted)
ChunkIDs == {0, 1, 2}

RECURSIVE SumTo(_, _)
\* the accumulation of the loops at lines 17-21 and 39-42: f[1] + ... + f[k]
SumTo(f, k) == IF k = 0 THEN 0 ELSE SumTo(f, k - 1) + f[k]

DotProduct(a, b) == SumTo([k \in 1..Len(a) |-> a[k] * b[k]], Len(a))

\* the result of math.Sqrt(x), kept exact as the radicand
Sqrt(x) == [sqrt |-> x]

\* float64 results of CosineSimilarity: num / sqrt(den); 0 is 0 / sqrt(1)
Ratio(num, den) == [num |-> num, sqrtDen |-> den]
ZeroFloat == Ratio(0, 1)

\* lines 33-45
EuclideanDistance(a, b) ==
    IF Len(a) # Len(b)
      THEN [value |-> Sqrt(0), err |-> "length"]
      ELSE [value |-> Sqrt(SumTo([k \in 1..Len(a) |-> (a[k] - b[k]) * (a[k] - b[k])], Len(a))),
            err |-> NoError]

\* a cosine similarity that divides whatever the norms are
CosineSimilarity_NoGuard(a, b) ==
    IF Len(a) # Len(b)
      THEN [value |-> ZeroFloat, err |-> "length"]
      ELSE [value |-> Ratio(DotProduct(a, b), DotProduct(a, a) * DotProduct(b, b)),
            err |-> NoError]

\* lines 10-31
CosineSimilarity(a, b) ==
    IF Len(a) # Len(b)
      THEN [value |-> ZeroFloat, err |-> "length"]
      ELSE LET normA == DotProduct(a, a)
               normB == DotProduct(b, b)
           IN IF normA = 0 \/ normB = 0
                THEN [value |-> ZeroFloat, err |-> NoError]
                ELSE [value |-> Ratio(DotProduct(a, b), normA * normB), err |-> NoError]

\* the batch call is not running
BatchQuiet ==
    /\ kind = "embedding" /\ chunks = <<>> /\ maxWorkers = 0
    /\ hasCallback = FALSE /\ pc = "idle" /\ spawned = 0 /\ sendIdx = 0 /\ cell = <<>>
    /\ processedChunks = <<>> /\ errors = <<>> /\ completed = 0 /\ ret = NotReturned
    /\ jobs = <<>> /\ jobsClosed = FALSE /\ results = <<>> /\ resultsClosed = FALSE
    /\ wg = 0
    /\ wpc = [w \in Workers |-> "unstarted"]
    /\ wjob = [w \in Workers |-> NoJob]
    /\ wtext = [w \in Workers |-> 0]
    /\ wresp = [w \in Workers |-> NoResponse]
    /\ cpc = "unstarted" /\ progressLog = <<>> /\ reqCount = <<>> /\ outcome = <<>>
    /\ panicked = FALSE

BatchIdle == loopvar = "periter" /\ BatchQuiet

\* an inner loop that starts at the chunk itself
InnerStart_Self(i) == i

\* the start of the inner loop, line 51: j := i + 1
InnerStart(i) == i + 1

\* a call of CalculateAllSimilarities(chunks): line 48 and the loop heads
SimInit ==
    /\ BatchIdle /\ CleanIdle /\ StoreIdle /\ RunIdle /\ ChunkIdle
    /\ \E n \in 0..MaxSimChunks :
         \E ids \in [0..(n - 1) -> ChunkIDs], embs \in [0..(n - 1) -> EmbeddingPool] :
            simChunks = [i \in 0..(n - 1) |->
                           [ID |-> ids[i], Text |-> i + 1, ChunkIndex |-> i,
                            Embedding |-> embs[i], Summary |-> <<>>]]
    /\ simI = 0 /\ simJ = InnerStart(0)
    /\ similarities = NilSlice
    /\ simPc = "loop" /\ simRet = SimNotReturned

SimN == Cardinality(DOMAIN simChunks)

\* lines 65-70
SimilarityRecord(chunk1, chunk2, distance, cosineSim) ==
    [ChunkID1 |-> chunk1.ID, ChunkID2 |-> chunk2.ID,
     Distance |-> distance, Similarity |-> cosineSim]

\* a failing return that hands out the records computed so far
SimFailure_Partial(sims, op, chunk1, chunk2, cause) ==
    [similarities |-> sims,
     err |-> [isNil |-> FALSE, op |-> op, id1 |-> chunk1.ID, id2 |-> chunk2.ID,
              cause |-> cause]]

\* lines 57 and 62: return nil, fmt.Errorf(... chunk1.ID, chunk2.ID, err)
SimFailure(sims, op, chunk1, chunk2, cause) ==
    [similarities |-> NilSlice,
     err |-> [isNil |-> FALSE, op |-> op, id1 |-> chunk1.ID, id2 |-> chunk2.ID,
              cause |-> cause]]

\* lines 52-72: one iteration of the inner loop
SimPair ==
    /\ simPc = "loop" /\ simI < SimN /\ simJ < SimN
    /\ LET chunk1 == simChunks[simI]
           chunk2 == simChunks[simJ]
           dist == EuclideanDistance(chunk1.Embedding, chunk2.Embedding)
           cos == CosineSimilarity(chunk1.Embedding, chunk2.Embedding)
       IN IF dist.err # NoError
            THEN /\ simRet' = SimFailure(similarities, "distance", chunk1, chunk2, dist.err)
                 /\ simPc' = "done"
                 /\ UNCHANGED <<similarities, simJ>>
            ELSE IF cos.err # NoError
            THEN /\ simRet' = SimFailure(similarities, "similarity", chunk1, chunk2, cos.err)
                 /\ simPc' = "done"
                 /\ UNCHANGED <<similarities, simJ>>
            ELSE /\ similarities' =
                       [isNil |-> FALSE,
                        elems |-> Append(similarities.elems,
                                         SimilarityRecord(chunk1, chunk2, dist.value, cos.value))]
                 /\ simJ' = simJ + 1
                 /\ UNCHANGED <<simRet, simPc>>
    /\ UNCHANGED <<simChunks, simI>>
    /\ UNCHANGED nonSimVars

\* lines 50-51: the inner loop is exhausted; i++ and j := i + 1
SimOuter ==
    /\ simPc = "loop" /\ simI < SimN /\ simJ >= SimN
    /\ simI' = simI + 1
    /\ simJ' = InnerStart(simI + 1)
    /\ UNCHANGED <<simChunks, similarities, simPc, simRet>>
    /\ UNCHANGED nonSimVars

\* line 76: return similarities, nil
SimReturn ==
    /\ simPc = "loop" /\ simI >= SimN
    /\ simRet' = [similarities |-> similarities, err |-> SimNoError]
    /\ simPc' = "done"
    /\ UNCHANGED <<simChunks, simI, simJ, similarities>>
    /\ UNCHANGED nonSimVars

SimNext == SimPair \/ SimOuter \/ SimReturn

SimSpec == SimInit /\ [][SimNext]_vars

\* ----------------------------------------------------- cleanSummaryResponse
\* A string is a sequence of tokens; a token is a character or a run of
\* characters that the alphabet only offers as a whole.
\* longest response, in tokens
MaxLen == 4

\* the tokens a response is made of
Alphabet == {"<think>", "</think>", "<", ">", " ", ".", ":", "Summary", "The topic is", "a"}

Responses == UNION {[1..n -> Alphabet] : n \in 0..MaxLen}

Least(S) == CHOOSE x \in S : \A y \in S : x <= y
Greatest(S) == CHOOSE x \in S : \A y \in S : y <= x

\* s[from:] of Go, from counted in tokens
From(s, from) == SubSeq(s, from + 1, Len(s))

RECURSIVE StripThink(_)
\* lines 226-227: ReplaceAllString of (?s)<think>.*?</think> by "": leftmost
\* matches, each up to the nearest closing marker
StripThink(s) ==
    LET closes(i) == {j \in DOMAIN s : j > i /\ s[j] = "</think>"}
        opens == {i \in DOMAIN s : s[i] = "<think>" /\ closes(i) # {}}
    IN IF opens = {}
         THEN s
         ELSE LET i == Least(opens)
              IN SubSeq(s, 1, i - 1) \o StripThink(From(s, Least(closes(i))))

\* the tokens that begin with '<' and the tokens that hold a '>'
StartsTag(t) == t \in {"<", "<think>", "</think>"}
HoldsClose(t) == t \in {">", "<think>", "</think>"}

RECURSIVE StripTags(_)
\* lines 230-231: ReplaceAllString of <[^>]*> by "": leftmost matches, each
\* from a '<' to the first '>' after it
StripTags(s) ==
    LET tagEnds(i) == {j \in DOMAIN s : HoldsClose(s[j]) /\ (j > i \/ (j = i /\ s[i] # "<"))}
        tagStarts == {i \in DOMAIN s : StartsTag(s[i]) /\ tagEnds(i) # {}}
    IN IF tagStarts = {}
         THEN s
         ELSE LET i == Least(tagStarts)
              IN SubSeq(s, 1, i - 1) \o StripTags(From(s, Least(tagEnds(i))))

\* strings.TrimSpace
TrimSpace(s) ==
    LET inked == {i \in DOMAIN s : s[i] # " "}
    IN IF inked = {} THEN <<>> ELSE SubSeq(s, Least(inked), Greatest(inked))

\* strings.ToLower, on a token
ToLower(t) ==
    CASE t = "Summary" -> "summary"
      [] t = "Topic" -> "topic"
      [] t = "Key words" -> "key words"
      [] t = "Keywords" -> "keywords"
      [] t = "The text is about" -> "the text is about"
      [] t = "This text discusses" -> "this text discusses"
      [] t = "The topic is" -> "the topic is"
      [] t = "Main topic" -> "main topic"
      [] t = "Subject" -> "subject"
      [] t = "Theme" -> "theme"
      [] OTHER -> t

\* lines 237-241
Prefixes ==
    << <<"Summary", ":">>, <<"Topic", ":">>, <<"Key words", ":">>, <<"Keywords", ":">>,
       <<"The text is about">>, <<"This text discusses">>, <<"The topic is">>,
       <<"Main topic", ":">>, <<"Subject", ":">>, <<"Theme", ":">> >>

\* line 244: strings.HasPrefix(strings.ToLower(cleaned), strings.ToLower(prefix))
HasPrefixFold(s, prefix) ==
    /\ Len(s) >= Len(prefix)
    /\ \A k \in 1..Len(prefix) : ToLower(s[k]) = ToLower(prefix[k])

\* lines 243-248: the first prefix of the list that matches is cut off, once
StripPrefix(s) ==
    LET hits == {k \in DOMAIN Prefixes : HasPrefixFold(s, Prefixes[k])}
    IN IF hits = {}
         THEN s
         ELSE TrimSpace(From(s, Len(Prefixes[Least(hits)])))

\* strings.TrimSuffix, for a suffix of one character
TrimSuffix(s, punct) ==
    IF s # <<>> /\ s[Len(s)] = punct THEN SubSeq(s, 1, Len(s) - 1) ELSE s

\* line 251
Punctuation == <<".", "!", "?", ":", ";", ",">>

RECURSIVE TrimPunctuation(_, _)
\* lines 252-254: one TrimSuffix per punctuation mark, from mark k on
TrimPunctuation(s, k) ==
    IF k > Len(Punctuation)
      THEN s
      ELSE TrimPunctuation(TrimSuffix(s, Punctuation[k]), k + 1)

\* lines 224-257
cleanSummaryResponse(r) ==
    TrimSpace(TrimPunctuation(StripPrefix(TrimSpace(StripTags(StripThink(r)))), 1))

RECURSIVE Fields(_)
\* strings.Fields: the maximal runs without white space
Fields(s) ==
    LET inked == {i \in DOMAIN s : s[i] # " "}
    IN IF inked = {}
         THEN <<>>
         ELSE LET b == Least(inked)
                  e == Least({i \in (b + 1)..(Len(s) + 1) : i > Len(s) \/ s[i] = " "})
              IN <<SubSeq(s, b, e - 1)>> \o Fields(From(s, e - 1))

RECURSIVE Join(_)
\* strings.Join(words, " ")
Join(words) ==
    IF words = <<>> THEN <<>>
    ELSE IF Len(words) = 1 THEN words[1]
    ELSE words[1] \o <<" ">> \o Join(Tail(words))

\* lines 217-219
MaxWords == 10

\* lines 215-221: what GetSummary returns for the response r
SummaryOf(r) ==
    LET words == Fields(cleanSummaryResponse(r))
    IN Join(IF Len(words) > MaxWords THEN SubSeq(words, 1, MaxWords) ELSE words)

\* a response arrives
CleanInit ==
    /\ BatchIdle /\ SimIdle /\ StoreIdle /\ RunIdle /\ ChunkIdle
    /\ response \in Responses
    /\ cleanedOnce = <<>> /\ cleanedTwice = <<>>
    /\ summaryOnce = <<>> /\ summaryTwice = <<>>
    /\ cleanPc = "raw"

\* lines 215-221 applied to the response
CleanOnce ==
    /\ cleanPc = "raw"
    /\ cleanedOnce' = cleanSummaryResponse(response)
    /\ summaryOnce' = SummaryOf(response)
    /\ cleanPc' = "once"
    /\ UNCHANGED <<response, cleanedTwice, summaryTwice>>
    /\ UNCHANGED nonCleanVars

\* lines 215-221 applied to their own result
CleanAgain ==
    /\ cleanPc = "once"
    /\ cleanedTwice' = cleanSummaryResponse(cleanedOnce)
    /\ summaryTwice' = SummaryOf(summaryOnce)
    /\ cleanPc' = "twice"
    /\ UNCHANGED <<response, cleanedOnce, summaryOnce>>
    /\ UNCHANGED nonCleanVars

CleanNext == CleanOnce \/ CleanAgain

CleanSpec == CleanInit /\ [][CleanNext]_vars

\* ------------------------------------------- DB.BatchInsertSimilarities
\* dbSims holds what a reader of the file sees: the committed rows.  The rows
\* of an open transaction are in txRows until the commit.  FOREIGN KEY
\* clauses are not enforced (NewDB opens the file without foreign_keys).
\* longest batch handed to BatchInsertSimilarities on its own
MaxBatch == 3

\* UNIQUE(chunk_id_1, chunk_id_2): the pair of rec is already in rows
Collides(rows, rec) ==
    \E k \in DOMAIN rows :
        rows[k].ChunkID1 = rec.ChunkID1 /\ rows[k].ChunkID2 = rec.ChunkID2

\* a rollback that keeps the rows inserted so far
Rollback_Keep(committed, pending) == committed \o pending

\* the deferred tx.Rollback() of line 148 on a failing return (and the
\* driver's ROLLBACK after a failed COMMIT): the pending rows are dropped
Rollback(committed, pending) == committed

\* the records a batch is made of
TxRecords ==
    {[ChunkID1 |-> 1, ChunkID2 |-> 2, Distance |-> Sqrt(0), Similarity |-> Ratio(1, 1)],
     [ChunkID1 |-> 2, ChunkID2 |-> 1, Distance |-> Sqrt(0), Similarity |-> Ratio(1, 1)],
     [ChunkID1 |-> 1, ChunkID2 |-> 3, Distance |-> Sqrt(2), Similarity |-> ZeroFloat]}

\* a call of BatchInsertSimilarities(similarities) on a store
TxInit ==
    /\ BatchIdle /\ SimIdle /\ CleanIdle /\ RunIdle /\ ChunkIdle
    /\ dbChunks = <<>>
    /\ dbSims \in {<<>>} \cup {<<r>> : r \in TxRecords}
    /\ dbBefore = [chunks |-> <<>>, sims |-> dbSims]
    /\ txBatch \in UNION {[1..n -> TxRecords] : n \in 0..MaxBatch}
    /\ txI = 0 /\ txRows = <<>> /\ txPc = "begin" /\ txErr = NoError

\* lines 144-154: Begin and Prepare, each of which can fail
TxBegin ==
    /\ txPc = "begin"
    /\ \E cause \in {NoError, "begin", "prepare"} :
         IF cause = NoError
           THEN txPc' = "exec" /\ txErr' = NoError
           ELSE txPc' = "returned" /\ txErr' = cause
    /\ txI' = 0 /\ txRows' = <<>>
    /\ UNCHANGED <<dbChunks, dbSims, dbBefore, txBatch>>
    /\ UNCHANGED <<batchVars, simVars, cleanVars, runVars, chunkVars>>

\* lines 156-160: one stmt.Exec; it fails on a pair the table already holds,
\* in a committed row or in a row of this transaction, and it can fail for
\* reasons of the file (I/O, lock); the failing return rolls back
TxExec ==
    /\ txPc = "exec" /\ txI < Len(txBatch)
    /\ LET rec == txBatch[txI + 1]
       IN \E io \in BOOLEAN :
            IF ~io \/ Collides(dbSims \o txRows, rec)
              THEN /\ dbSims' = Rollback(dbSims, txRows)
                   /\ txRows' = <<>>
                   /\ txPc' = "returned" /\ txErr' = "insert"
                   /\ UNCHANGED txI
              ELSE /\ txRows' = Append(txRows, rec)
                   /\ txI' = txI + 1
                   /\ UNCHANGED <<dbSims, txPc, txErr>>
    /\ UNCHANGED <<dbChunks, dbBefore, txBatch>>
    /\ UNCHANGED <<batchVars, simVars, cleanVars, runVars, chunkVars>>

\* lines 162-166: tx.Commit() publishes the rows or fails and rolls back
TxCommit ==
    /\ txPc = "exec" /\ txI = Len(txBatch)
    /\ \E ok \in BOOLEAN :
         IF ok
           THEN dbSims' = dbSims \o txRows /\ txErr' = NoError
           ELSE dbSims' = Rollback(dbSims, txRows) /\ txErr' = "commit"
    /\ txRows' = <<>> /\ txPc' = "returned"
    /\ UNCHANGED <<dbChunks, dbBefore, txBatch, txI>>
    /\ UNCHANGED <<batchVars, simVars, cleanVars, runVars, chunkVars>>

TxNext == TxBegin \/ TxExec \/ TxCommit

TxSpec == TxInit /\ [][TxNext]_vars

\* ------------------------------------- processFile and App.ProcessFile
\* A run is the calling goroutine of processFile (CLI) or App.ProcessFile
\* (desktop).  The two batch calls are taken as Spec establishes them: every
\* job's request is issued once, by a pool of runWorkers workers that take
\* the jobs in queue order, and the call returns when every request has
\* been answered.
\* largest number of chunks of the input file
MaxRunChunks == 3

\* the embeddings the service may return: two that point apart, and one of
\* another length
RunEmbeddings == {<<1, 0>>, <<0 - 1, 2>>, <<1>>}

\* the model service: answering, unreachable, answering /api/tags with a
\* status other than 200, or lacking the embedding model
ServiceStates == {"ok", "down", "status", "nomodel"}

\* ollama.go lines 87-100
CheckConnection(s) ==
    IF s = "down" THEN "connect" ELSE IF s = "status" THEN "status" ELSE NoError

\* ollama.go lines 103-142
CheckModelsAvailable(s) ==
    IF s = "down" THEN "connect"
    ELSE IF s = "status" THEN "parse"
    ELSE IF s = "nomodel" THEN "missing"
    ELSE NoError

\* the service can answer a request of the batch with success
CanAnswer(s, k) == s \in {"ok", "status"} \/ (s = "nomodel" /\ k = "summary")

\* the arguments of a run: -w absent or not positive, one worker, many
\* workers; a machine of one CPU or of many
RunArgs == [maxWorkers : {0 - 1, 0, 1, MaxWorkers}, numCPU : {1, MaxWorkers}]

\* a store holding an earlier run of a two-chunk file
PriorChunks ==
    << [ID |-> 1, Text |-> 1, ChunkIndex |-> 0, Embedding |-> <<1, 0>>, Summary |-> <<1>>],
       [ID |-> 2, Text |-> 2, ChunkIndex |-> 1, Embedding |-> <<0 - 1, 2>>, Summary |-> <<2>>] >>
PriorStore ==
    [chunks |-> PriorChunks,
     sims |-> <<SimilarityRecord(PriorChunks[1], PriorChunks[2],
                                 EuclideanDistance(<<1, 0>>, <<0 - 1, 2>>).value,
                                 CosineSimilarity(<<1, 0>>, <<0 - 1, 2>>).value)>>]
EmptyStore == [chunks |-> <<>>, sims |-> <<>>]

Unrequested(cs) == [i \in DOMAIN cs |-> "none"]
NoAnswers(cs) == [i \in DOMAIN cs |-> <<>>]

\* part_005 lines 64 and 93-107, part_009 lines 32-54: the file is chunked
\* and the store is opened (NewDB creates the file or opens the one already
\* there); maxWorkers is the value of the -w flag (0 when it is not given)
\* or the argument of App.ProcessFile, and runtime.NumCPU() is a property of
\* the machine
RunInit ==
    /\ BatchQuiet /\ loopvar \in {"shared", "periter"}
    /\ SimIdle /\ CleanIdle /\ ChunkIdle
    /\ entry \in {"cli", "app"} /\ svc \in ServiceStates
    /\ runArg \in RunArgs
    /\ \E n \in 0..MaxRunChunks : runChunks = [i \in 0..(n - 1) |-> FreshChunk(i)]
    /\ dbBefore \in {EmptyStore, PriorStore}
    /\ dbChunks = dbBefore.chunks /\ dbSims = dbBefore.sims
    /\ txBatch = <<>> /\ txI = 0 /\ txRows = <<>> /\ txPc = "idle" /\ txErr = NoError
    /\ runPc = "start" /\ runWorkers = 0
    /\ embReq = Unrequested(runChunks) /\ sumReq = Unrequested(runChunks)
    /\ answers = NoAnswers(runChunks)
    /\ runK = 0 /\ runErr = NoError /\ graphResp = NoGraph

RunN == Cardinality(DOMAIN runChunks)

\* part_005 lines 111-113: CheckConnection
RunCheckConnection ==
    /\ entry = "cli" /\ runPc = "start"
    /\ IF CheckConnection(svc) # NoError
         THEN runPc' = "failed" /\ runErr' = CheckConnection(svc)
         ELSE runPc' = "models" /\ UNCHANGED runErr
    /\ UNCHANGED <<entry, svc, runArg, runWorkers, runChunks, embReq, sumReq, answers, runK, graphResp>>
    /\ UNCHANGED <<batchVars, simVars, cleanVars, storeVars, chunkVars>>

\* part_005 lines 121-123
CliWorkers(w) == IF w <= 0 THEN 1 ELSE w

\* part_005 lines 116-127: CheckModelsAvailable, the default of maxWorkers,
\* and the call of GetEmbeddingsConcurrent
RunCheckModels ==
    /\ entry = "cli" /\ runPc = "models"
    /\ IF CheckModelsAvailable(svc) # NoError
         THEN /\ runPc' = "failed" /\ runErr' = CheckModelsAvailable(svc)
              /\ UNCHANGED runWorkers
         ELSE /\ runPc' = "embedding" /\ UNCHANGED runErr
              /\ runWorkers' = CliWorkers(runArg.maxWorkers)
    /\ UNCHANGED <<entry, svc, runArg, runChunks, embReq, sumReq, answers, runK, graphResp>>
    /\ UNCHANGED <<batchVars, simVars, cleanVars, storeVars, chunkVars>>

\* part_009 lines 54-68: the desktop run calls GetEmbeddingsConcurrent at
\* once; the batch call replaces maxWorkers <= 0 by the number of CPUs
RunAppStart ==
    /\ entry = "app" /\ runPc = "start"
    /\ runPc' = "embedding"
    /\ runWorkers' = DefaultWorkers(runArg.maxWorkers, runArg.numCPU)
    /\ UNCHANGED <<entry, svc, runArg, runChunks, embReq, sumReq, answers, runK, runErr, graphResp>>
    /\ UNCHANGED <<batchVars, simVars, cleanVars, storeVars, chunkVars>>

InBatch == runPc \in {"embedding", "summarising"}
BatchKind == IF runPc = "embedding" THEN "embedding" ELSE "summary"
ReqOf == IF runPc = "embedding" THEN embReq ELSE sumReq

\* ollama.go lines 365-369 (and summaryWorker): a worker of the pool takes
\* the next job of the queue and issues its request
RunRequest ==
    /\ InBatch
    /\ \E i \in DOMAIN runChunks :
         /\ ReqOf[i] = "none"
         /\ \A j \in DOMAIN runChunks : j < i => ReqOf[j] # "none"
         /\ Cardinality({j \in DOMAIN runChunks : ReqOf[j] = "inflight"}) < runWorkers
         /\ IF runPc = "embedding"
              THEN embReq' = [embReq EXCEPT ![i] = "inflight"] /\ UNCHANGED sumReq
              ELSE sumReq' = [sumReq EXCEPT ![i] = "inflight"] /\ UNCHANGED embReq
    /\ UNCHANGED <<entry, svc, runArg, runPc, runWorkers, runChunks, answers, runK, runErr, graphResp>>
    /\ UNCHANGED <<batchVars, simVars, cleanVars, storeVars, chunkVars>>

\* ollama.go lines 152-181, 183-222: the service answers the request of job
\* i, or the call fails
RunReply(i) ==
    /\ InBatch /\ ReqOf[i] = "inflight"
    /\ \E ok \in BOOLEAN :
         /\ ok => CanAnswer(svc, BatchKind)
         /\ IF runPc = "embedding"
              THEN /\ embReq' = [embReq EXCEPT ![i] = IF ok THEN "ok" ELSE "failed"]
                   /\ IF ok
                        THEN \E e \in RunEmbeddings : answers' = [answers EXCEPT ![i] = e]
                        ELSE UNCHANGED answers
                   /\ UNCHANGED sumReq
              ELSE /\ sumReq' = [sumReq EXCEPT ![i] = IF ok THEN "ok" ELSE "failed"]
                   /\ UNCHANGED <<embReq, answers>>
    /\ UNCHANGED <<entry, svc, runArg, runPc, runWorkers, runChunks, runK, runErr, graphResp>>
    /\ UNCHANGED <<batchVars, simVars, cleanVars, storeVars, chunkVars>>

\* a batch call that returns once every job was handed out
BatchJoined_Early(req) == \A i \in DOMAIN req : req[i] # "none"

\* ollama.go lines 281-284, 292: the collect loop ends when the results
\* channel is closed, after wg.Wait(): every request has been answered
BatchJoined(req) == \A i \in DOMAIN req : req[i] \in {"ok", "failed"}

\* ollama.go lines 275-277, 292-309: what a successful batch call returns.
\* With one loop variable for the whole send loop every job points at the
\* variable, which holds the last chunk when the results are collected, and
\* carries the embedding (summary) some worker stored last.
BatchOutputs(k) ==
    IF loopvar = "periter"
      THEN {[i \in DOMAIN runChunks |->
               IF k = "embedding"
                 THEN [runChunks[i] EXCEPT !.Embedding = answers[i]]
                 ELSE [runChunks[i] EXCEPT !.Summary = ServiceSummary(runChunks[i].Text)]]}
      ELSE {[i \in DOMAIN runChunks |->
               IF k = "embedding"
                 THEN [runChunks[RunN - 1] EXCEPT !.Embedding = answers[pick[i]]]
                 ELSE [runChunks[RunN - 1] EXCEPT
                         !.Summary = ServiceSummary(runChunks[pick[i]].Text)]] :
            pick \in [DOMAIN runChunks -> DOMAIN runChunks]}

\* a batch call that reports no failure
AnyFailed_Never(req) == FALSE

\* ollama.go lines 305-307: len(errors) > 0
AnyFailed(req) == \E i \in DOMAIN req : req[i] = "failed"

\* part_005 lines 127-143, part_009 lines 68-87: the batch call returns; an
\* aggregate error ends the run, otherwise the next stage starts
RunBatchReturn ==
    /\ InBatch /\ BatchJoined(ReqOf)
    /\ IF AnyFailed(ReqOf)
         THEN /\ runPc' = "failed"
              /\ runErr' = IF runPc = "embedding" THEN "embeddings" ELSE "summaries"
              /\ UNCHANGED runChunks
         ELSE /\ runPc' = IF runPc = "embedding" THEN "summarising" ELSE "insert"
              /\ runChunks' \in BatchOutputs(BatchKind)
              /\ UNCHANGED runErr
    /\ answers' = NoAnswers(runChunks)
    /\ UNCHANGED <<entry, svc, runArg, runWorkers, embReq, sumReq, runK, graphResp>>
    /\ UNCHANGED <<batchVars, simVars, cleanVars, storeVars, chunkVars>>

\* a store that gives every row of a run the same id
NextID_Reused == Len(dbBefore.chunks) + 1

\* a store whose ids fall from row to row
NextID_Descending == 2 * (MaxRunChunks + 2) - Len(dbChunks)

\* id INTEGER PRIMARY KEY AUTOINCREMENT, on a table no row is deleted from
NextID == Len(dbChunks) + 1

\* part_005 lines 147-152, part_009 lines 90-94, part_007 lines 88-101: one
\* InsertChunk; the CLI writes the chunk with its new id back to the slice
RunInsertChunk ==
    /\ runPc = "insert" /\ runK < RunN
    /\ \E ok \in BOOLEAN :
         IF ok
           THEN LET row == [runChunks[runK] EXCEPT !.ID = NextID]
                IN /\ dbChunks' = Append(dbChunks, row)
                   /\ runChunks' = IF entry = "cli"
                                     THEN [runChunks EXCEPT ![runK] = row]
                                     ELSE runChunks
                   /\ runK' = runK + 1
                   /\ UNCHANGED <<runPc, runErr>>
           ELSE /\ runPc' = "failed" /\ runErr' = "insert"
                /\ UNCHANGED <<dbChunks, runChunks, runK>>
    /\ UNCHANGED <<entry, svc, runArg, runWorkers, embReq, sumReq, answers, graphResp>>
    /\ UNCHANGED <<dbSims, dbBefore, txBatch, txI, txRows, txPc, txErr>>
    /\ UNCHANGED <<batchVars, simVars, cleanVars, chunkVars>>

\* part_005 line 156: the CLI calls CalculateAllSimilarities(processedChunks)
RunCallSimilarities ==
    /\ entry = "cli" /\ runPc = "insert" /\ runK = RunN
    /\ simChunks' = runChunks
    /\ simI' = 0 /\ simJ' = InnerStart(0)
    /\ similarities' = NilSlice /\ simRet' = SimNotReturned
    /\ simPc' = "loop"
    /\ runPc' = "simcalc"
    /\ UNCHANGED <<entry, svc, runArg, runWorkers, runChunks, embReq, sumReq, answers, runK,
                   runErr, graphResp>>
    /\ UNCHANGED <<batchVars, cleanVars, storeVars, chunkVars>>

\* a run that takes its chunks back when the similarities cannot be computed
RunAfterSimilarities_Rollback ==
    /\ runPc = "simcalc" /\ simPc = "done"
    /\ IF ~simRet.err.isNil
         THEN /\ runPc' = "failed" /\ runErr' = "similarities"
              /\ dbChunks' = dbBefore.chunks
              /\ UNCHANGED <<txBatch, txPc>>
         ELSE /\ runPc' = "persist" /\ UNCHANGED <<runErr, dbChunks>>
              /\ txBatch' = simRet.similarities.elems
              /\ txPc' = "begin"
    /\ UNCHANGED <<entry, svc, runArg, runWorkers, runChunks, embReq, sumReq, answers, runK,
                   graphResp>>
    /\ UNCHANGED <<dbSims, dbBefore, txI, txRows, txErr>>
    /\ UNCHANGED <<batchVars, simVars, cleanVars, chunkVars>>

\* part_005 lines 157-163: an error ends the run, otherwise
\* BatchInsertSimilarities(similarities) is called
RunAfterSimilarities ==
    /\ runPc = "simcalc" /\ simPc = "done"
    /\ IF ~simRet.err.isNil
         THEN /\ runPc' = "failed" /\ runErr' = "similarities"
              /\ UNCHANGED <<txBatch, txPc>>
         ELSE /\ runPc' = "persist" /\ UNCHANGED runErr
              /\ txBatch' = simRet.similarities.elems
              /\ txPc' = "begin"
    /\ UNCHANGED <<entry, svc, runArg, runWorkers, runChunks, embReq, sumReq, answers, runK,
                   graphResp>>
    /\ UNCHANGED <<dbChunks, dbSims, dbBefore, txI, txRows, txErr>>
    /\ UNCHANGED <<batchVars, simVars, cleanVars, chunkVars>>

RECURSIVE OrderByChunkIndex(_)
\* part_007 line 104: ORDER BY chunk_index, rows of one index in rowid order
OrderByChunkIndex(rows) ==
    IF rows = <<>>
      THEN <<>>
      ELSE LET k == Least({a \in DOMAIN rows :
                             \A b \in DOMAIN rows : rows[a].ChunkIndex <= rows[b].ChunkIndex})
           IN <<rows[k]>> \o
              OrderByChunkIndex(SubSeq(rows, 1, k - 1) \o SubSeq(rows, k + 1, Len(rows)))

\* part_007 lines 103-132
GetAllChunks == OrderByChunkIndex(dbChunks)

\* part_007 lines 221-238: no error value; a length mismatch gives 0.0
cosineSimilarity(a, b) ==
    IF Len(a) # Len(b)
      THEN ZeroFloat
      ELSE LET normA == DotProduct(a, a)
               normB == DotProduct(b, b)
           IN IF normA = 0 \/ normB = 0
                THEN ZeroFloat
                ELSE Ratio(DotProduct(a, b), normA * normB)

\* part_007 line 179: 1.0 - similarity
OneMinus(x) == [oneMinus |-> x]

RECURSIVE DBSimilarities(_, _, _)
\* part_007 lines 175-188: the records of the pairs (i, j), i < j, from
\* (i, j) on, in loop order; cs is numbered from 1
DBSimilarities(cs, i, j) ==
    IF i > Len(cs) THEN <<>>
    ELSE IF j > Len(cs) THEN DBSimilarities(cs, i + 1, i + 2)
    ELSE <<[ChunkID1 |-> cs[i].ID, ChunkID2 |-> cs[j].ID,
            Distance |-> OneMinus(cosineSimilarity(cs[i].Embedding, cs[j].Embedding)),
            Similarity |-> cosineSimilarity(cs[i].Embedding, cs[j].Embedding)]>>
         \o DBSimilarities(cs, i, j + 1)

\* part_009 line 103, part_007 lines 169-190: the desktop run calls
\* db.CalculateSimilarities(), which reads every chunk of the store and
\* calls BatchInsertSimilarities
RunDBCalculate ==
    /\ entry = "app" /\ runPc = "insert" /\ runK = RunN
    /\ \E ok \in BOOLEAN :
         IF ok
           THEN /\ runPc' = "persist" /\ UNCHANGED runErr
                /\ txBatch' = DBSimilarities(GetAllChunks, 1, 2)
                /\ txPc' = "begin"
           ELSE /\ runPc' = "failed" /\ runErr' = "getchunks"
                /\ UNCHANGED <<txBatch, txPc>>
    /\ UNCHANGED <<entry, svc, runArg, runWorkers, runChunks, embReq, sumReq, answers, runK,
                   graphResp>>
    /\ UNCHANGED <<dbChunks, dbSims, dbBefore, txI, txRows, txErr>>
    /\ UNCHANGED <<batchVars, simVars, cleanVars, chunkVars>>

\* part_005 lines 163-171, part_009 lines 103-112: BatchInsertSimilarities
\* has returned
RunAfterPersist ==
    /\ runPc = "persist" /\ txPc = "returned"
    /\ IF txErr # NoError
         THEN runPc' = "failed" /\ runErr' = "store"
         ELSE runPc' = "done" /\ UNCHANGED runErr
    /\ UNCHANGED <<entry, svc, runArg, runWorkers, runChunks, embReq, sumReq, answers, runK,
                   graphResp>>
    /\ UNCHANGED <<batchVars, simVars, cleanVars, storeVars, chunkVars>>

\* ------------------------------------------------- APIServer.handleGraph
\* a >= b for two float64 results num / sqrt(sqrtDen), sqrtDen > 0
RatioGE(a, b) ==
    IF a.num >= 0 /\ b.num <= 0 THEN TRUE
    ELSE IF a.num < 0 /\ b.num >= 0 THEN FALSE
    ELSE IF a.num >= 0 THEN a.num * a.num * b.sqrtDen >= b.num * b.num * a.sqrtDen
    ELSE a.num * a.num * b.sqrtDen <= b.num * b.num * a.sqrtDen

\* the min_similarity parameter: absent, not a number, 0, 1 and 1.01
BadParam == [given |-> TRUE, valid |-> FALSE, num |-> 0, sqrtDen |-> 1]
Param(num, sqrtDen) == [given |-> TRUE, valid |-> TRUE, num |-> num, sqrtDen |-> sqrtDen]
MinParams == {NoParam, BadParam, Param(0, 1), Param(1, 1), Param(101, 10000)}

\* a threshold that ignores the parameter
MinSimilarity_Ignored(param) == ZeroFloat

\* part_005 lines 287-292
MinSimilarity(param) ==
    IF param.given /\ param.valid THEN Ratio(param.num, param.sqrtDen) ELSE ZeroFloat

RECURSIVE OrderBySimilarityDesc(_)
\* reader.go line 25: ORDER BY similarity DESC, equal rows in rowid order
OrderBySimilarityDesc(rows) ==
    IF rows = <<>>
      THEN <<>>
      ELSE LET k == Least({a \in DOMAIN rows :
                             \A b \in DOMAIN rows :
                                 RatioGE(rows[a].Similarity, rows[b].Similarity)})
           IN <<rows[k]>> \o
              OrderBySimilarityDesc(SubSeq(rows, 1, k - 1) \o SubSeq(rows, k + 1, Len(rows)))

\* reader.go lines 24-46
GetAllSimilarities == OrderBySimilarityDesc(dbSims)

\* part_005 lines 314-322
GraphNodes(cs) ==
    [k \in DOMAIN cs |->
       [ID |-> cs[k].ID, Text |-> cs[k].Text, Index |-> cs[k].ChunkIndex,
        Summary |-> cs[k].Summary]]

GraphLink(sim) ==
    [Source |-> sim.ChunkID1, Target |-> sim.ChunkID2, Distance |-> sim.Distance,
     Similarity |-> sim.Similarity]

\* links for every stored record
GraphLinks_Unfiltered(sims, min) == [k \in DOMAIN sims |-> GraphLink(sims[k])]

\* part_005 lines 324-334
GraphLinks(sims, min) ==
    LET kept(sim) == RatioGE(sim.Similarity, min)
        keptSims == SelectSeq(sims, kept)
    IN [k \in DOMAIN keptSims |-> GraphLink(keptSims[k])]

\* part_005 lines 286-341: the answer to GET /graph on the store as it is
GraphResponse(param) ==
    [status |-> 200, param |-> param,
     nodes |-> GraphNodes(GetAllChunks),
     links |-> GraphLinks(GetAllSimilarities, MinSimilarity(param))]

\* part_005 lines 280-342: a request to the graph endpoint after the run;
\* another method is refused, and a failing query gives status 500
HandleGraph ==
    /\ runPc \in {"done", "failed"} /\ graphResp = NoGraph
    /\ \E method \in {"GET", "POST"}, param \in MinParams, ok \in BOOLEAN :
         graphResp' =
            IF method # "GET"
              THEN [status |-> 405, param |-> param, nodes |-> <<>>, links |-> <<>>]
            ELSE IF ~ok
              THEN [status |-> 500, param |-> param, nodes |-> <<>>, links |-> <<>>]
            ELSE GraphResponse(param)
    /\ UNCHANGED <<entry, svc, runArg, runPc, runWorkers, runChunks, embReq, sumReq, answers, runK,
                   runErr>>
    /\ UNCHANGED <<batchVars, simVars, cleanVars, storeVars, chunkVars>>

\* ------------------------------------------------------ App.GetGraphData
\* part_009 lines 148-156: the node's id is the chunk's index in its file
AppNodes(cs) ==
    [k \in DOMAIN cs |->
       [ID |-> cs[k].ChunkIndex, Index |-> cs[k].ChunkIndex, Text |-> cs[k].Text,
        Summary |-> cs[k].Summary]]

\* part_009 lines 160-164
AppLink(sim) ==
    [Source |-> sim.ChunkID1, Target |-> sim.ChunkID2, Similarity |-> sim.Similarity]

\* part_007 lines 197-219: WHERE similarity >= ? ORDER BY similarity DESC
GetSimilarities(min) ==
    LET kept(sim) == RatioGE(sim.Similarity, min)
    IN SelectSeq(OrderBySimilarityDesc(dbSims), kept)

\* the minSimilarity arguments of the desktop app
AppParams == {Param(0, 1), Param(1, 1), Param(101, 10000)}

\* part_009 lines 131-171: the desktop app, with the store of the run opened
\* (OpenDatabase), asks for the graph; a failing query returns an error and
\* no data.  The answer is no HTTP response: its status is 0
GetGraphData ==
    /\ runPc \in {"done", "failed"} /\ graphResp = NoGraph
    /\ \E param \in AppParams, ok \in BOOLEAN :
         graphResp' =
            IF ~ok
              THEN [status |-> 0, param |-> param, nodes |-> <<>>, links |-> <<>>]
              ELSE LET sims == GetSimilarities(Ratio(param.num, param.sqrtDen))
                   IN [status |-> 0, param |-> param,
                       nodes |-> AppNodes(GetAllChunks),
                       links |-> [k \in DOMAIN sims |-> AppLink(sims[k])]]
    /\ UNCHANGED <<entry, svc, runArg, runPc, runWorkers, runChunks, embReq, sumReq, answers, runK,
                   runErr>>
    /\ UNCHANGED <<batchVars, simVars, cleanVars, storeVars, chunkVars>>

RunNext ==
    \/ RunCheckConnection \/ RunCheckModels \/ RunAppStart
    \/ RunRequest \/ (\E i \in DOMAIN runChunks : RunReply(i)) \/ RunBatchReturn
    \/ RunInsertChunk
    \/ RunCallSimilarities \/ SimPair \/ SimOuter \/ SimReturn \/ RunAfterSimilarities
    \/ RunDBCalculate
    \/ TxBegin \/ TxExec \/ TxCommit \/ RunAfterPersist
    \/ HandleGraph \/ GetGraphData

RunSpec == RunInit /\ [][RunNext]_vars

\* ------------------------------------------------- ChunkTextByParagraphs
\* Two chunkers carry this name: the line scanner the CLI imports
\* (unnamed/part_004) and the one built on langchaingo's recursive
\* character splitter (pkg/textproc/chunker.go).  A line and a segment are
\* sequences of the tokens " " (white space) and "a" (a word).
\* longest line or segment, and most lines of a file or segments of a text
MaxLineLen == 2
MaxLines == 3

RECURSIVE TokenSeqs(_)
TokenSeqs(n) ==
    IF n = 0 THEN {<<>>}
    ELSE TokenSeqs(n - 1) \cup
         {Append(l, t) : l \in {x \in TokenSeqs(n - 1) : Len(x) = n - 1}, t \in {" ", "a"}}
Lines == TokenSeqs(MaxLineLen)

RECURSIVE LineSeqs(_)
LineSeqs(n) ==
    IF n = 0 THEN {<<>>}
    ELSE LineSeqs(n - 1) \cup
         {Append(f, l) : f \in {x \in LineSeqs(n - 1) : Len(x) = n - 1}, l \in Lines}
Files == LineSeqs(MaxLines)

\* a file is handed to one of the chunkers.  What splitter.SplitText
\* returns for a text is decided outside this repository: any sequence of
\* segments
ChunkInit ==
    /\ BatchIdle /\ SimIdle /\ CleanIdle /\ StoreIdle /\ RunIdle
    /\ \/ \E f \in Files : chunkIn = [chunker |-> "scanner", lines |-> f, docs |-> <<>>]
       \/ \E f \in {<<>>, << <<" ">> >>, << <<"a">> >>}, d \in Files :
             chunkIn = [chunker |-> "splitter", lines |-> f, docs |-> d]
    /\ chunkOut = NotChunked

\* database.TextChunk{Text: text, ChunkIndex: index}
NewChunk(text, index) == [Text |-> text, ChunkIndex |-> index]

\* part_004 lines 26-33: chunkIndex++ only after a chunk was appended
NextIndex(nonEmpty, chunkIndex) == IF nonEmpty THEN chunkIndex + 1 ELSE chunkIndex

RECURSIVE ScanLines(_, _, _, _, _)
\* part_004 lines 22-48: the scanner loop from line k on, and the chunk
\* left in the builder when the file ends
ScanLines(lines, k, currentChunk, chunkIndex, acc) ==
    IF k > Len(lines)
      THEN IF Len(currentChunk) > 0
             THEN Append(acc, NewChunk(TrimSpace(currentChunk), chunkIndex))
             ELSE acc
      ELSE LET line == TrimSpace(lines[k])
           IN IF line = <<>>
                THEN ScanLines(lines, k + 1, <<>>,
                               NextIndex(Len(currentChunk) > 0, chunkIndex),
                               IF Len(currentChunk) > 0
                                 THEN Append(acc, NewChunk(TrimSpace(currentChunk), chunkIndex))
                                 ELSE acc)
                ELSE ScanLines(lines, k + 1,
                               IF Len(currentChunk) > 0 THEN currentChunk \o <<" ">> \o line
                                                        ELSE line,
                               chunkIndex, acc)

\* part_004 lines 11-55: os.Open or the scanner can fail
ScannerChunker ==
    /\ chunkIn.chunker = "scanner" /\ ~chunkOut.returned
    /\ \E ok \in BOOLEAN :
         chunkOut' = IF ok
                       THEN [returned |-> TRUE, err |-> NoError,
                             chunks |-> ScanLines(chunkIn.lines, 1, <<>>, 0, <<>>)]
                       ELSE [returned |-> TRUE, err |-> "read", chunks |-> <<>>]
    /\ UNCHANGED chunkIn
    /\ UNCHANGED <<batchVars, simVars, cleanVars, storeVars, runVars>>

\* chunker.go line 31: TrimSpace of the whole text leaves nothing
BlankText(lines) == \A k \in DOMAIN lines : TrimSpace(lines[k]) = <<>>

RECURSIVE DocsToChunks(_, _, _)
\* chunker.go lines 60-70: for i, doc := range docs, from position i on
\* (docs is numbered from 1 here, i is the index of the code)
DocsToChunks(docs, i, acc) ==
    IF i >= Len(docs) THEN acc
    ELSE LET chunk == TrimSpace(docs[i + 1])
         IN DocsToChunks(docs, i + 1,
                         IF Len(chunk) > 0 THEN Append(acc, NewChunk(chunk, i))
                                           ELSE acc)

\* chunker.go lines 12-72: ChunkTextByParagraphs reads the file and calls
\* chunkTextWithSplitter; reading or splitting can fail
SplitterChunker ==
    /\ chunkIn.chunker = "splitter" /\ ~chunkOut.returned
    /\ \E ok \in BOOLEAN :
         chunkOut' = IF ~ok
                       THEN [returned |-> TRUE, err |-> "read", chunks |-> <<>>]
                     ELSE IF BlankText(chunkIn.lines)
                       THEN [returned |-> TRUE, err |-> NoError, chunks |-> <<>>]
                     ELSE [returned |-> TRUE, err |-> NoError,
                           chunks |-> DocsToChunks(chunkIn.docs, 0, <<>>)]
    /\ UNCHANGED chunkIn
    /\ UNCHANGED <<batchVars, simVars, cleanVars, storeVars, runVars>>

ChunkNext == ScannerChunker \/ SplitterChunker

ChunkSpec == ChunkInit /\ [][ChunkNext]_vars

\* the Go scheduler runs every runnable goroutine and the service answers
\* every request it was sent: a step that can be taken is taken.  This is
\* implied by weak fairness of each of MainStep, CloserStep, WorkerStep(w)
\* and ServiceReply(w).
LiveSpec == Spec /\ WF_vars(Next)

\* ------------------------------------------------------------ properties
Done == pc = "done"
Succeeded == Done /\ ret.err.isNil
FailedIndices == {i \in DOMAIN chunks : outcome[i] \in Causes}
OkIndices == {i \in DOMAIN chunks : outcome[i] = NoError}
InFlight == {w \in Workers : wpc[w] = "inflight"}
Running == {w \in Workers : wpc[w] \notin {"unstarted", "done"}}

\* C1: when GetEmbeddingsConcurrent succeeds, the output has the length of the
\* input and output[i] has the text and chunkIndex of input[i] and the
\* embedding the service returns for input[i]'s text
C1_OrderPreserved ==
    (Succeeded /\ kind = "embedding") =>
        /\ ~ret.chunks.isNil
        /\ DOMAIN ret.chunks.elems = DOMAIN chunks
        /\ \A i \in DOMAIN chunks :
             /\ ret.chunks.elems[i].Text = chunks[i].Text
             /\ ret.chunks.elems[i].ChunkIndex = chunks[i].ChunkIndex
             /\ ret.chunks.elems[i].Embedding = ServiceEmbedding(chunks[i].Text)

\* C2: a batch in which a job failed returns a non-nil error and the nil slice
C2_NoPartialResult ==
    (Done /\ FailedIndices # {}) => (~ret.err.isNil /\ ret.chunks.isNil /\ ret.chunks.elems = <<>>)

C2_Witness ==
    /\ Done /\ FailedIndices # {} /\ OkIndices # {}
    /\ ret.chunks.isNil
    /\ \E i \in OkIndices : processedChunks[i] # ZeroChunk

\* C3: the aggregate error names every failing index once, with its cause,
\* and no index whose call succeeded
C3_ErrorNamesFailures ==
    Done =>
        /\ ret.err.isNil <=> FailedIndices = {}
        /\ \A i \in FailedIndices :
             Cardinality({k \in DOMAIN ret.err.errors : ret.err.errors[k].Index = i}) = 1
        /\ \A k \in DOMAIN ret.err.errors :
             /\ ret.err.errors[k].Index \in FailedIndices
             /\ ret.err.errors[k].Cause = outcome[ret.err.errors[k].Index]

C3_Witness ==
    /\ Done /\ N = 2 /\ outcome[0] = NoError /\ outcome[1] \in Causes
    /\ ret.err.errors = <<[Index |-> 1, Cause |-> outcome[1]]>>

\* C4: one service request per input chunk: never two for an index, and one
\* for every index once the call has returned, failures or not
C4_OneRequestPerChunk ==
    /\ \A i \in DOMAIN chunks : reqCount[i] <= 1
    /\ Done => \A i \in DOMAIN chunks : reqCount[i] = 1

C4_Witness ==
    /\ Done /\ N = 2 /\ maxWorkers = 1
    /\ outcome[0] \in Causes /\ reqCount[1] = 1

\* C5: the callback receives (1, N), (2, N), ..., one call per collected
\* result, failed or not, N calls when the call returns; only a step of the
\* collect loop invokes it
C5_ProgressCalls ==
    /\ [](hasCallback =>
            /\ progressLog = [k \in 1..completed |-> <<k, N>>]
            /\ Done => completed = N)
    /\ [][progressLog' # progressLog =>
            (pc = "collect" /\ completed' = completed + 1 /\ wpc' = wpc /\ cpc' = cpc)]_vars

C5_Witness ==
    /\ Done /\ hasCallback /\ N = 2 /\ FailedIndices # {} /\ OkIndices # {}
    /\ progressLog = <<<<1, 2>>, <<2, 2>>>>

\* C6: at most maxWorkers requests are in flight; the pool has maxWorkers
\* workers, each with at most one request
C6_BoundedInFlight ==
    pc # "entry" =>
        /\ Cardinality(InFlight) <= maxWorkers
        /\ Cardinality({w \in Workers : wpc[w] # "unstarted"}) <= maxWorkers
        /\ pc # "spawn" => Cardinality({w \in Workers : wpc[w] # "unstarted"}) = maxWorkers

C6_Witness == maxWorkers = 2 /\ Cardinality(InFlight) = 2

\* C7: with every service call answered, the call returns, for every N and W;
\* for N = 0 it returns an empty result and a nil error, with no callback and
\* no request
C7_Terminates ==
    /\ <>Done
    /\ [](Done /\ N = 0 =>
            /\ ret = [chunks |-> [isNil |-> FALSE, elems |-> <<>>], err |-> NilAggregate]
            /\ progressLog = <<>>
            /\ InFlight = {})

C7_Witness == Done /\ N = 0 /\ maxWorkers = 2 /\ \A w \in 1..2 : wpc[w] = "done"

\* C8: every worker has exited before the results channel is closed, the
\* channel is closed before the call returns, and no send hits a closed
\* channel
C8_JoinedBeforeReturn ==
    /\ resultsClosed => Running = {}
    /\ cpc \in {"close", "done"} => Running = {}
    /\ Done => resultsClosed
    /\ ~panicked

C8_Witness == Done /\ resultsClosed /\ N = 2 /\ maxWorkers = 2 /\ Running = {}

\* C9: when GetSummariesConcurrent succeeds, output[i] is input[i] with the
\* summary obtained for input[i]'s text, and nothing else changed
C9_SummaryFrame ==
    (Succeeded /\ kind = "summary") =>
        /\ DOMAIN ret.chunks.elems = DOMAIN chunks
        /\ \A i \in DOMAIN chunks :
             ret.chunks.elems[i] = [chunks[i] EXCEPT !.Summary = ServiceSummary(chunks[i].Text)]

\* C10: for chunks with equal-length embeddings CalculateAllSimilarities
\* returns one record (chunks[i].ID, chunks[j].ID) for every position pair
\* i < j and no other record: N*(N-1)/2 records, none for N = 0 and N = 1
SimDone == simPc = "done"
EqualLengths ==
    \A i, j \in DOMAIN simChunks : Len(simChunks[i].Embedding) = Len(simChunks[j].Embedding)
PositionPairs == {p \in (DOMAIN simChunks) \X (DOMAIN simChunks) : p[1] < p[2]}
C10_AllPairsOnce ==
    (SimDone /\ EqualLengths) =>
        /\ simRet.err.isNil
        /\ Len(simRet.similarities.elems) * 2 = SimN * (SimN - 1)
        /\ \A a, b \in ChunkIDs :
             Cardinality({k \in DOMAIN simRet.similarities.elems :
                             /\ simRet.similarities.elems[k].ChunkID1 = a
                             /\ simRet.similarities.elems[k].ChunkID2 = b})
             = Cardinality({p \in PositionPairs :
                             simChunks[p[1]].ID = a /\ simChunks[p[2]].ID = b})

C10_Witness ==
    /\ SimDone /\ EqualLengths /\ SimN = 3
    /\ simChunks[0].ID = 1 /\ simChunks[1].ID = 2 /\ simChunks[2].ID = 0
    /\ Len(simRet.similarities.elems) = 3

\* C11: when two chunks of the input have embeddings of different lengths,
\* CalculateAllSimilarities returns an error and the nil slice, whatever
\* records it had computed before the mismatching pair
C11_MismatchFailsClosed ==
    (SimDone /\ ~EqualLengths) =>
        /\ ~simRet.err.isNil
        /\ simRet.err.cause = "length"
        /\ simRet.similarities.isNil /\ simRet.similarities.elems = <<>>

C11_Witness ==
    /\ SimDone /\ SimN = 3
    /\ Len(simChunks[0].Embedding) = 2 /\ Len(simChunks[1].Embedding) = 2
    /\ Len(simChunks[2].Embedding) = 1
    /\ Len(similarities.elems) = 1
    /\ ~simRet.err.isNil /\ simRet.similarities.isNil

\* C12: CosineSimilarity of two equal-length vectors of which one has zero
\* magnitude is exactly 0 with no error, and the iteration that compares such
\* a pair records similarity 0 and goes on
ZeroMagnitude(a) == DotProduct(a, a) = 0
ZeroPair(i, j) ==
    /\ Len(simChunks[i].Embedding) = Len(simChunks[j].Embedding)
    /\ ZeroMagnitude(simChunks[i].Embedding) \/ ZeroMagnitude(simChunks[j].Embedding)
C12_ZeroMagnitudeIsZero ==
    /\ [](\A i, j \in DOMAIN simChunks :
            ZeroPair(i, j) =>
                CosineSimilarity(simChunks[i].Embedding, simChunks[j].Embedding)
                    = [value |-> ZeroFloat, err |-> NoError])
    /\ [][(simPc = "loop" /\ simI < SimN /\ simJ < SimN /\ ZeroPair(simI, simJ)) =>
            /\ simPc' = "loop"
            /\ Len(similarities'.elems) = Len(similarities.elems) + 1
            /\ similarities'.elems[Len(similarities'.elems)].Similarity = ZeroFloat]_vars

C12_Witness ==
    /\ SimDone /\ SimN = 2 /\ simRet.err.isNil
    /\ simChunks[0].Embedding = <<0, 0>> /\ simChunks[1].Embedding = <<0 - 1, 2>>
    /\ Len(simRet.similarities.elems) = 1
    /\ simRet.similarities.elems[1].Similarity = ZeroFloat

\* C13: cleaning is idempotent: cleaning a cleaned response changes nothing,
\* for cleanSummaryResponse and for the summary GetSummary returns
C13_CleanIdempotent ==
    cleanPc = "twice" => (cleanedTwice = cleanedOnce /\ summaryTwice = summaryOnce)

\* C17: BatchInsertSimilarities is all-or-nothing: when it returns an error
\* the committed rows are the rows it found, when it returns nil they are
\* those rows followed by every record of the batch, and until it returns
\* no reader sees a row of the batch
TxReturned == txPc = "returned"
C17_AllOrNothing ==
    /\ txPc \in {"begin", "exec"} => dbSims = dbBefore.sims
    /\ (TxReturned /\ txErr # NoError) => dbSims = dbBefore.sims
    /\ (TxReturned /\ txErr = NoError) => dbSims = dbBefore.sims \o txBatch

\* the second record of a batch collides after the first was inserted
C17_Witness ==
    /\ TxReturned /\ txErr = "insert" /\ txI = 1 /\ Len(txBatch) = 2
    /\ Collides(dbBefore.sims \o <<txBatch[1]>>, txBatch[2])
    /\ ~Collides(dbBefore.sims, txBatch[1])

\* C14: when the service is unreachable, answers the availability check with
\* a status other than 200, or lacks a required model, no request of the
\* embedding or the summary batch is ever issued and no chunk is persisted
ServiceUnavailable == svc # "ok"
NoRequestIssued ==
    \A i \in DOMAIN runChunks : embReq[i] = "none" /\ sumReq[i] = "none"
C14_FailFast ==
    ServiceUnavailable =>
        /\ NoRequestIssued
        /\ dbChunks = dbBefore.chunks
        /\ runPc # "done"

\* C15: no summary request is issued before the embedding batch call has
\* returned with every embedding request answered successfully
EmbeddingReturned == runPc \notin {"start", "models", "embedding"}
C15_BatchesInSequence ==
    \A i \in DOMAIN runChunks :
        sumReq[i] # "none" =>
            (EmbeddingReturned /\ \A j \in DOMAIN runChunks : embReq[j] = "ok")

C15_Witness ==
    /\ RunN = 3 /\ runWorkers = 2 /\ runPc = "summarising"
    /\ sumReq[0] = "inflight" /\ sumReq[1] = "inflight" /\ sumReq[2] = "none"
    /\ \A j \in DOMAIN runChunks : embReq[j] = "ok"

\* C16: a batch that reports a failure ends the run with an error and the
\* store is as the run found it; a row is written only when every request
\* of both batches has been answered successfully and no worker is running
StoreUntouched == dbChunks = dbBefore.chunks /\ dbSims = dbBefore.sims
BatchFailed == runPc = "failed" /\ runErr \in {"embeddings", "summaries"}
C16_AbortWithoutWrites ==
    /\ BatchFailed => StoreUntouched
    /\ (AnyFailed(embReq) \/ AnyFailed(sumReq)) =>
           (StoreUntouched /\ runPc \in {"embedding", "summarising", "failed"})
    /\ ~StoreUntouched =>
           \A i \in DOMAIN runChunks : embReq[i] = "ok" /\ sumReq[i] = "ok"

C16_Witness ==
    /\ BatchFailed /\ runErr = "summaries" /\ RunN = 3 /\ dbBefore = PriorStore
    /\ sumReq[0] = "ok" /\ sumReq[1] = "failed" /\ sumReq[2] = "ok"
    /\ StoreUntouched

\* C18: a run that fails while computing or persisting the similarities
\* leaves the rows of all its chunks in the store, and a run that fails at
\* the insert of chunk k leaves the rows of chunks 0..k-1
RunRows(k) ==
    [j \in 1..k |-> [runChunks[j - 1] EXCEPT !.ID = Len(dbBefore.chunks) + j]]
C18_ChunksNotRolledBack ==
    /\ (runPc = "failed" /\ runErr \in {"similarities", "getchunks", "store"}) =>
           dbChunks = dbBefore.chunks \o RunRows(RunN)
    /\ (runPc = "failed" /\ runErr = "insert") =>
           (runK < RunN /\ dbChunks = dbBefore.chunks \o RunRows(runK))

C18_Witness ==
    /\ runPc = "failed" /\ runErr = "similarities" /\ RunN = 3
    /\ Len(dbChunks) = Len(dbBefore.chunks) + 3
    /\ dbSims = dbBefore.sims

\* C19: a graph response carries one link for every stored similarity
\* record whose similarity is >= min_similarity (0 when the parameter is
\* absent) and for no other, and one node for every stored chunk
Threshold == Ratio(graphResp.param.num, graphResp.param.sqrtDen)
LinkedSims == {r \in DOMAIN dbSims : RatioGE(dbSims[r].Similarity, Threshold)}
C19_GraphFilter ==
    (graphResp.status = 200 /\ graphResp.param # BadParam) =>
        /\ Len(graphResp.links) = Cardinality(LinkedSims)
        /\ \A r \in LinkedSims : \E k \in DOMAIN graphResp.links :
               /\ graphResp.links[k].Source = dbSims[r].ChunkID1
               /\ graphResp.links[k].Target = dbSims[r].ChunkID2
               /\ graphResp.links[k].Similarity = dbSims[r].Similarity
        /\ Len(graphResp.nodes) = Len(dbChunks)
        /\ \A r \in DOMAIN dbChunks : \E k \in DOMAIN graphResp.nodes :
               /\ graphResp.nodes[k].ID = dbChunks[r].ID
               /\ graphResp.nodes[k].Text = dbChunks[r].Text
               /\ graphResp.nodes[k].Index = dbChunks[r].ChunkIndex

C19_Witness ==
    /\ graphResp.status = 200 /\ graphResp.param = Param(1, 1)
    /\ Len(dbSims) = 3 /\ Len(graphResp.links) = 1 /\ Len(graphResp.nodes) = 3
    /\ graphResp.links[1].Similarity = Ratio(1, 1)

\* C20: a successful run of a three-chunk file on a fresh store leaves the
\* records (id0,id1), (id0,id2), (id1,id2); the graph then has 3 nodes and
\* 3 links for min_similarity=0 and 3 nodes and no link for 1.01
FreshRunOfThree == runPc = "done" /\ RunN = 3 /\ dbBefore = EmptyStore
StoredPairs == {<<dbSims[r].ChunkID1, dbSims[r].ChunkID2>> : r \in DOMAIN dbSims}
ThreeRecords ==
    /\ Len(dbSims) = 3 /\ Len(dbChunks) = 3
    /\ StoredPairs = {<<dbChunks[1].ID, dbChunks[2].ID>>, <<dbChunks[1].ID, dbChunks[3].ID>>,
                      <<dbChunks[2].ID, dbChunks[3].ID>>}
    /\ \A a, b \in 1..3 : a < b => dbChunks[a].ID < dbChunks[b].ID
AtZero == GraphResponse(Param(0, 1))
AboveOne == GraphResponse(Param(101, 10000))
C20_ThreeChunksEndToEnd ==
    FreshRunOfThree =>
        /\ ThreeRecords
        /\ Len(AtZero.nodes) = 3 /\ Len(AtZero.links) = 3
        /\ Len(AboveOne.nodes) = 3 /\ Len(AboveOne.links) = 0

\* C20, amended: as above, but for min_similarity=0 the links are the
\* records of non-negative similarity: 3 when no pair of embeddings has a
\* negative cosine, all 3 in any case for min_similarity=-1
NonNegative == {r \in DOMAIN dbSims : dbSims[r].Similarity.num >= 0}
C20_ThreeChunksAmended ==
    FreshRunOfThree =>
        /\ ThreeRecords
        /\ Len(AtZero.nodes) = 3 /\ Len(AtZero.links) = Cardinality(NonNegative)
        /\ Cardinality(NonNegative) = 3 => Len(AtZero.links) = 3
        /\ Len(GraphResponse(Param(0 - 1, 1)).links) = 3
        /\ Len(AboveOne.nodes) = 3 /\ Len(AboveOne.links) = 0

C20_Witness ==
    /\ FreshRunOfThree /\ entry = "cli" /\ ThreeRecords
    /\ Cardinality(NonNegative) = 1 /\ Len(AtZero.links) = 1
    /\ Len(AboveOne.links) = 0

\* C21: when the process command runs with a worker count of 0 or below
\* (-w absent), the embedding and the summary batch run with a pool of as
\* many workers as the machine has CPUs
WithoutWorkersFlag == entry = "cli" /\ runArg.maxWorkers <= 0
C21_DefaultPoolIsNumCPU ==
    (WithoutWorkersFlag /\ InBatch) => runWorkers = runArg.numCPU

\* C22: in every state of the store a run reaches, each persisted similarity
\* record names two different chunks, both ids are ids of persisted chunks,
\* and the ids are the ones the store assigned, never the zero id a chunk
\* has before it is persisted
PersistedIDs == {dbChunks[k].ID : k \in DOMAIN dbChunks}
C22_PairsNameStoredChunks ==
    \A r \in DOMAIN dbSims :
        /\ dbSims[r].ChunkID1 # dbSims[r].ChunkID2
        /\ dbSims[r].ChunkID1 \in PersistedIDs /\ dbSims[r].ChunkID2 \in PersistedIDs
        /\ dbSims[r].ChunkID1 # 0 /\ dbSims[r].ChunkID2 # 0

\* a CLI run of three chunks has stored its records beside an earlier run's
C22_Witness ==
    /\ runPc = "done" /\ entry = "cli" /\ RunN = 3 /\ dbBefore = PriorStore
    /\ Len(dbSims) = Len(dbBefore.sims) + 3

\* C23: the chunks of a run are persisted one at a time in the order of
\* their chunk indices, so that of two rows of one run the one with the
\* higher chunk index has the higher store id
RowsOfRun == {k \in DOMAIN dbChunks : k > Len(dbBefore.chunks)}
C23_IdFollowsChunkIndex ==
    /\ Len(dbChunks) = Len(dbBefore.chunks) + runK
    /\ \A a, b \in RowsOfRun :
           /\ a < b => dbChunks[a].ChunkIndex <= dbChunks[b].ChunkIndex
           /\ dbChunks[a].ChunkIndex < dbChunks[b].ChunkIndex =>
                  dbChunks[a].ID < dbChunks[b].ID

\* three chunks of indices 0, 1, 2 were stored after an earlier run's rows
C23_Witness ==
    /\ runPc = "done" /\ RunN = 3 /\ dbBefore = PriorStore /\ Len(dbChunks) = 5
    /\ \A j \in 0..2 : dbChunks[3 + j].ChunkIndex = j /\ dbChunks[3 + j].ID = 3 + j

\* C24: there is no timeout and no cancellation.  A worker leaves a service
\* call only by the service's reply, and while any call is outstanding the
\* results channel stays open and the batch call has not returned, also
\* when every other job has been completed and collected
C24_HungCallHangsBatch ==
    /\ [](InFlight # {} => (~resultsClosed /\ ~Done /\ ret = NotReturned))
    /\ [][\A w \in Workers :
            (wpc[w] = "inflight" /\ wpc'[w] # "inflight") =>
                (wpc'[w] = "returned" /\ wresp'[w] # NoResponse)]_vars

\* one call of two is outstanding; the other job's result was collected and
\* nothing is left for the caller, the closer or the other worker to do
C24_Witness ==
    /\ N = 2 /\ maxWorkers = 2 /\ Cardinality(InFlight) = 1
    /\ pc = "collect" /\ completed = 1 /\ results = <<>> /\ jobs = <<>>
    /\ cpc = "wait" /\ \E w \in Workers : wpc[w] = "done"

\* C25: the jobs come from one shared queue.  With two or more workers,
\* while one worker is blocked in a service call and a result of another job
\* is still to be produced, the caller or another worker can always take a
\* step, so the other jobs are taken and completed without that call; and
\* the results of all N-1 other jobs are collected while it is outstanding
Produced == Len(results) + completed
StepWithout(w) ==
    \/ SendJob
    \/ \E v \in Workers \ {w} :
          \/ WorkerRecv(v) \/ WorkerCall(v) \/ ServiceReply(v)
          \/ WorkerSendError(v) \/ WorkerStore(v) \/ WorkerSend(v)
C25_SharedQueue ==
    \A w \in Workers :
        (wpc[w] = "inflight" /\ maxWorkers >= 2 /\ Produced < N - 1) =>
            ENABLED StepWithout(w)

\* the first job's call is outstanding and the two other jobs, both taken by
\* the second worker, are collected
C25_Witness ==
    /\ N = 3 /\ maxWorkers = 2
    /\ \E w \in Workers : wpc[w] = "inflight" /\ wjob[w].Index = 0
    /\ completed = 2 /\ outcome[1] # "none" /\ outcome[2] # "none"

\* C30: the batch calls never modify the caller's input sequence.  At every
\* moment of a call, and after it has returned with a result or with an
\* error, every element of the input is as it was handed in and carries no
\* value the call obtained
Populated(c) == IF kind = "embedding" THEN c.Embedding # <<>> ELSE c.Summary # <<>>
C30_InputUnmodified ==
    /\ chunks = InputChunks(kind, N)
    /\ \A i \in DOMAIN chunks : ~Populated(chunks[i])

\* a call of two chunks has returned its populated chunks
C30_Witness ==
    /\ Succeeded /\ N = 2
    /\ \A i \in DOMAIN chunks : Populated(ret.chunks.elems[i]) /\ ~Populated(chunks[i])
    /\ \A i \in DOMAIN chunks : reqCount[i] = 1

\* C26: in the CLI run and in the desktop run, when two of the embeddings
\* the similarities are computed from have different lengths, the run does
\* not end in success and no similarity record is persisted
ComparedEmbeddings ==
    IF entry = "cli" THEN {runChunks[i].Embedding : i \in DOMAIN runChunks}
                     ELSE {dbChunks[k].Embedding : k \in DOMAIN dbChunks}
LengthMismatch == \E a, b \in ComparedEmbeddings : Len(a) # Len(b)
C26_MismatchIsFatal ==
    (runPc \in {"persist", "done", "failed"} /\ LengthMismatch) =>
        (runPc # "done" /\ dbSims = dbBefore.sims)
\* the same for the CLI run alone
CliMismatchIsFatal == entry = "cli" => C26_MismatchIsFatal

\* C27: a run of N chunks on a store that holds the chunks and the records
\* of an earlier run never collides with UNIQUE(chunk_id_1, chunk_id_2), and
\* when it ends in success it has added exactly N*(N-1)/2 records
OnPriorStore == dbBefore = PriorStore
UniqueCollision ==
    /\ runPc = "failed" /\ runErr = "store" /\ txErr = "insert" /\ txI < Len(txBatch)
    /\ Collides(dbSims \o SubSeq(txBatch, 1, txI), txBatch[txI + 1])
C27_RerunAddsPairs ==
    OnPriorStore =>
        /\ ~UniqueCollision
        /\ runPc = "done" =>
               Len(dbSims) = Len(dbBefore.sims) + (RunN * (RunN - 1)) \div 2
\* the same for the CLI run alone
CliRerunAddsPairs == entry = "cli" => C27_RerunAddsPairs

\* C29: in every graph response built from a store a run has written, by
\* the HTTP endpoint or by the desktop app's GetGraphData, the source and
\* the target of every link are ids of nodes of the same response
NodeIDs == {graphResp.nodes[k].ID : k \in DOMAIN graphResp.nodes}
C29_LinksNameNodes ==
    \A k \in DOMAIN graphResp.links :
        graphResp.links[k].Source \in NodeIDs /\ graphResp.links[k].Target \in NodeIDs
\* the same for the HTTP endpoint alone
HttpLinksNameNodes == graphResp.status = 200 => C29_LinksNameNodes

\* C28: the chunking step returns chunks whose texts are all non-empty and
\* whose chunk indices are 0, 1, ..., N-1 in sequence order, whatever blank
\* lines or white-space segments the input holds
Chunked == chunkOut.returned /\ chunkOut.err = NoError
C28_ChunksInSequence ==
    Chunked =>
        \A k \in DOMAIN chunkOut.chunks :
            /\ chunkOut.chunks[k].Text # <<>>
            /\ chunkOut.chunks[k].ChunkIndex = k - 1
\* the same for the line scanner alone
ScannerChunksInSequence == chunkIn.chunker = "scanner" => C28_ChunksInSequence
\* what both chunkers give: non-empty texts and rising indices
ChunkIndicesRise ==
    Chunked =>
        \A k \in DOMAIN chunkOut.chunks :
            /\ chunkOut.chunks[k].Text # <<>>
            /\ chunkOut.chunks[k].ChunkIndex >= k - 1
            /\ k > 1 => chunkOut.chunks[k - 1].ChunkIndex < chunkOut.chunks[k].ChunkIndex

=============================================================================
